---- MODULE Spec2Model ----
(***************************************************************************)
(* Model of the OpenFlow action/instruction codec, lib/ofp-actions.c.      *)
(*                                                                         *)
(* A wire buffer is a sequence of bytes (0..255); every multi-byte wire    *)
(* field is big-endian and is read with Ntohs.  An internal buffer         *)
(* (struct ofpbuf holding ofpacts) is a record [acts, size]: the records   *)
(* put so far, each with its offset and its len field, and the number of   *)
(* bytes in the buffer (padding included).  Values wider than 16 bits are  *)
(* kept as tuples of bytes.                                                *)
(***************************************************************************)
EXTENDS Integers, Sequences, FiniteSets, TLC

VARIABLES centec,    \* the build flag _OFP_CENTEC_
          openflow,  \* the caller's wire buffer (struct ofpbuf *openflow)
          ofpacts,   \* the internal buffer (struct ofpbuf *ofpacts)
          pulled,    \* the last decode call: operation, length, bytes, error
          put,       \* the last encode call: operation, list, bytes, result
          verified,  \* the last ofpacts_verify call: list, error
          calls,     \* number of calls made so far
          string,    \* the caller's text buffer (struct ds *string)
          formatted, \* the last ofpacts_format call: list, text before it
          threads,   \* two threads, each making one call on its own buffers
          rl,        \* tokens of the static struct vlog_rate_limit rl
          classified, \* the last classification of one wire action
          checked,    \* the last call of ofpacts_check
          stale      \* what a read through a pointer into ofpacts gives
                     \* after ofpbuf_put moved the buffer; NULL: not moved

vars == <<centec, openflow, ofpacts, pulled, put, verified, calls, string,
          formatted, threads, rl, classified, checked, stale>>

(***************************************************************************)
(* Bounds of the model.                                                    *)
(***************************************************************************)
MaxChunks == 2        \* wire records (or internal records) per input
MaxWireBytes == 64    \* capacity of the wire buffer that encoders append to
MaxOrder == 3         \* records per internal list made of instruction kinds
MaxCalls == 2         \* calls of the codec's entry points per run

RlBurst == 5          \* VLOG_RATE_LIMIT_INIT(1, 5): the burst of rl

(***************************************************************************)
(* Wire primitives.                                                        *)
(***************************************************************************)
OFP_ACTION_ALIGN == 8
OFP11_INSTRUCTION_ALIGN == 8
OFPACT_ALIGNTO == 8

ROUND_UP(x, y) == ((x + y - 1) \div y) * y

\* ntohs() of the two bytes at 0-based offset o of b.
Ntohs(b, o) == b[o + 1] * 256 + b[o + 2]
\* htons(): the two bytes of a 16-bit host value, big-endian.
Htons(v) == <<(v \div 256) % 256, v % 256>>
\* n bytes at 0-based offset o of b.
Bytes(b, o, n) == SubSeq(b, o + 1, o + n)
Zeros(n) == [i \in 1..n |-> 0]
is_all_zeros(b, o, n) == \A i \in 1..n : b[o + i] = 0

(***************************************************************************)
(* Error codes (enum ofperr); 0 is success.                                *)
(***************************************************************************)
OK == "0"

(***************************************************************************)
(* Ports (openflow-1.0.h) and ofputil_check_output_port (ofp-util.c).      *)
(***************************************************************************)
OFPP_MAX == 65280          \* 0xff00
OFPP_IN_PORT == 65528      \* 0xfff8
OFPP_TABLE == 65529
OFPP_NORMAL == 65530
OFPP_FLOOD == 65531
OFPP_ALL == 65532
OFPP_CONTROLLER == 65533
OFPP_LOCAL == 65534        \* 0xfffe
OFPP_NONE == 65535

ofputil_check_output_port(port, max_ports) ==
    IF port \in OFPP_IN_PORT..OFPP_LOCAL THEN OK
    ELSE IF port < max_ports THEN OK
    ELSE "OFPERR_OFPBAC_BAD_OUT_PORT"

\* ofputil_port_from_ofp11: the 32-bit port is the four bytes p.  Ports
\* below OFPP_MAX map to themselves, 0xffffff00..0xffffffff map to
\* 0xff00..0xffff, every other port is an error.
ofputil_port_from_ofp11(p) ==
    IF p[1] = 0 /\ p[2] = 0 /\ p[3] * 256 + p[4] < OFPP_MAX
    THEN [error |-> OK, port |-> p[3] * 256 + p[4]]
    ELSE IF p[1] = 255 /\ p[2] = 255 /\ p[3] = 255
    THEN [error |-> OK, port |-> 65280 + p[4]]
    ELSE [error |-> "OFPERR_OFPBAC_BAD_OUT_PORT", port |-> 0]

ofputil_port_to_ofp11(port) ==
    IF port < OFPP_MAX THEN <<0, 0>> \o Htons(port)
    ELSE <<255, 255>> \o Htons(port)

ETH_TYPE_VLAN_8021Q == 33024   \* 0x8100
ETH_TYPE_MPLS == 34887         \* 0x8847
ETH_TYPE_MPLS_MCAST == 34888   \* 0x8848

eth_type_mpls(t) == t = ETH_TYPE_MPLS \/ t = ETH_TYPE_MPLS_MCAST

(***************************************************************************)
(* Opcode tables (ofp-util.def, OVS_INSTRUCTIONS): wire code, size of the  *)
(* wire struct, extensible flag, symbolic code.                            *)
(***************************************************************************)
OFPAT_VENDOR == 65535          \* OFPAT10_VENDOR, OFPAT11_EXPERIMENTER
OFPIT11_EXPERIMENTER == 65535
NX_VENDOR_ID == <<0, 0, 35, 32>>   \* 0x00002320, big-endian
NxActionHeaderSize == 16       \* sizeof(struct nx_action_header)
OfpActionSize == 8             \* sizeof(union ofp_action)
Ofp11InstructionSize == 8      \* sizeof(struct ofp11_instruction)

Entry(enum, code, size, ext) ==
    [enum |-> enum, code |-> code, size |-> size, ext |-> ext]

OFPAT10_ACTIONS ==
    { Entry(0, "OFPUTIL_OFPAT10_OUTPUT", 8, FALSE),
      Entry(1, "OFPUTIL_OFPAT10_SET_VLAN_VID", 8, FALSE),
      Entry(2, "OFPUTIL_OFPAT10_SET_VLAN_PCP", 8, FALSE),
      Entry(3, "OFPUTIL_OFPAT10_STRIP_VLAN", 8, FALSE),
      Entry(4, "OFPUTIL_OFPAT10_SET_DL_SRC", 16, FALSE),
      Entry(5, "OFPUTIL_OFPAT10_SET_DL_DST", 16, FALSE),
      Entry(6, "OFPUTIL_OFPAT10_SET_NW_SRC", 8, FALSE),
      Entry(7, "OFPUTIL_OFPAT10_SET_NW_DST", 8, FALSE),
      Entry(8, "OFPUTIL_OFPAT10_SET_NW_TOS", 8, FALSE),
      Entry(9, "OFPUTIL_OFPAT10_SET_TP_SRC", 8, FALSE),
      Entry(10, "OFPUTIL_OFPAT10_SET_TP_DST", 8, FALSE),
      Entry(11, "OFPUTIL_OFPAT10_ENQUEUE", 16, FALSE) }

\* The group and set_mpls_ttl actions are handled under _OFP_CENTEC_ only.
OFPAT11_ACTIONS(c) ==
    { Entry(0, "OFPUTIL_OFPAT11_OUTPUT", 16, FALSE),
      Entry(1, "OFPUTIL_OFPAT11_SET_VLAN_VID", 8, FALSE),
      Entry(2, "OFPUTIL_OFPAT11_SET_VLAN_PCP", 8, FALSE),
      Entry(3, "OFPUTIL_OFPAT11_SET_DL_SRC", 16, FALSE),
      Entry(4, "OFPUTIL_OFPAT11_SET_DL_DST", 16, FALSE),
      Entry(5, "OFPUTIL_OFPAT11_SET_NW_SRC", 8, FALSE),
      Entry(6, "OFPUTIL_OFPAT11_SET_NW_DST", 8, FALSE),
      Entry(7, "OFPUTIL_OFPAT11_SET_NW_TOS", 8, FALSE),
      Entry(9, "OFPUTIL_OFPAT11_SET_TP_SRC", 8, FALSE),
      Entry(10, "OFPUTIL_OFPAT11_SET_TP_DST", 8, FALSE),
      Entry(17, "OFPUTIL_OFPAT11_PUSH_VLAN", 8, FALSE),
      Entry(18, "OFPUTIL_OFPAT11_POP_VLAN", 8, FALSE),
      Entry(19, "OFPUTIL_OFPAT11_PUSH_MPLS", 8, FALSE),
      Entry(20, "OFPUTIL_OFPAT11_POP_MPLS", 8, FALSE),
      Entry(21, "OFPUTIL_OFPAT11_SET_QUEUE", 8, FALSE),
      Entry(24, "OFPUTIL_OFPAT11_DEC_NW_TTL", 8, FALSE),
      Entry(25, "OFPUTIL_OFPAT12_SET_FIELD", 8, TRUE) }
    \cup (IF c THEN { Entry(15, "OFPUTIL_OFPAT11_SET_MPLS_TTL", 8, FALSE),
                      Entry(22, "OFPUTIL_OFPAT11_GROUP", 8, FALSE) }
          ELSE {})

\* Subtypes 0 (SNAT) and 3 (DROP_SPOOFED_ARP) are obsolete: not in the table.
\* PUSH_L2 and POP_L2 exist under _OFP_CENTEC_ only; nicira-ext.h, which
\* numbers them, is not part of the source tree, so 25 and 26 stand for the
\* two subtypes that follow the last upstream one.
NXAST_ACTIONS(c) ==
    { Entry(1, "OFPUTIL_NXAST_RESUBMIT", 16, FALSE),
      Entry(2, "OFPUTIL_NXAST_SET_TUNNEL", 16, FALSE),
      Entry(4, "OFPUTIL_NXAST_SET_QUEUE", 16, FALSE),
      Entry(5, "OFPUTIL_NXAST_POP_QUEUE", 16, FALSE),
      Entry(6, "OFPUTIL_NXAST_REG_MOVE", 24, FALSE),
      Entry(7, "OFPUTIL_NXAST_REG_LOAD", 24, FALSE),
      Entry(8, "OFPUTIL_NXAST_NOTE", 16, TRUE),
      Entry(9, "OFPUTIL_NXAST_SET_TUNNEL64", 24, FALSE),
      Entry(10, "OFPUTIL_NXAST_MULTIPATH", 32, FALSE),
      Entry(12, "OFPUTIL_NXAST_BUNDLE", 32, TRUE),
      Entry(13, "OFPUTIL_NXAST_BUNDLE_LOAD", 32, TRUE),
      Entry(14, "OFPUTIL_NXAST_RESUBMIT_TABLE", 16, FALSE),
      Entry(15, "OFPUTIL_NXAST_OUTPUT_REG", 24, FALSE),
      Entry(16, "OFPUTIL_NXAST_LEARN", 32, TRUE),
      Entry(17, "OFPUTIL_NXAST_EXIT", 16, FALSE),
      Entry(18, "OFPUTIL_NXAST_DEC_TTL", 16, FALSE),
      Entry(19, "OFPUTIL_NXAST_FIN_TIMEOUT", 16, FALSE),
      Entry(20, "OFPUTIL_NXAST_CONTROLLER", 16, FALSE),
      Entry(21, "OFPUTIL_NXAST_DEC_TTL_CNT_IDS", 16, TRUE),
      Entry(22, "OFPUTIL_NXAST_WRITE_METADATA", 32, FALSE),
      Entry(23, "OFPUTIL_NXAST_PUSH_MPLS", 16, FALSE),
      Entry(24, "OFPUTIL_NXAST_POP_MPLS", 16, FALSE) }
        \cup (IF c THEN { Entry(25, "OFPUTIL_NXAST_PUSH_L2", 16, FALSE),
                           Entry(26, "OFPUTIL_NXAST_POP_L2", 16, FALSE) }
                   ELSE {})

\* enum ovs_instruction_type, in declaration order (the order that
\* ofpacts_verify compares with <=).
OVSINST_APPLY == 0
OVSINST_CLEAR == 1
OVSINST_WRITE_ACTIONS == 2
OVSINST_WRITE_METADATA == 3
OVSINST_GOTO_TABLE == 4
OVSINST_METER == 5
N_OVS_INSTRUCTIONS == 6

OVS_INSTRUCTIONS ==
    { Entry(4, OVSINST_APPLY, 8, TRUE),           \* OFPIT11_APPLY_ACTIONS
      Entry(5, OVSINST_CLEAR, 8, FALSE),          \* OFPIT11_CLEAR_ACTIONS
      Entry(3, OVSINST_WRITE_ACTIONS, 8, TRUE),   \* OFPIT11_WRITE_ACTIONS
      Entry(2, OVSINST_WRITE_METADATA, 24, FALSE),\* OFPIT11_WRITE_METADATA
      Entry(1, OVSINST_GOTO_TABLE, 8, FALSE),     \* OFPIT11_GOTO_TABLE
      Entry(6, OVSINST_METER, 8, FALSE) }         \* OFPIT13_METER

InTable(table, enum) == \E e \in table : e.enum = enum
Lookup(table, enum) == CHOOSE e \in table : e.enum = enum
\* The wire code of a symbolic code (used by the ofputil_put_<ENUM> and
\* instruction_put_<ENUM> helpers).
EntryOf(table, code) == CHOOSE e \in table : e.code = code

\* The length rule of the X-macro arms: extensible types take len >= size,
\* the others len == size.
LengthOk(e, len) == IF e.ext THEN len >= e.size ELSE len = e.size

(***************************************************************************)
(* The internal buffer: ofpact_put, ofpact_init, ofpact_update_len,        *)
(* ofpact_pad, ofpbuf_clear.                                               *)
(***************************************************************************)
INVALID == "OFPUTIL_ACTION_INVALID"

OfpactHeaderSize == 4          \* sizeof(struct ofpact)
OfpactNoteDataOffset == 16     \* offsetof(struct ofpact_note, data)

\* sizeof the struct of each internal kind (ofp-actions.h, OFPACTS).
OfpactSize(type) ==
    CASE type \in {"OFPACT_STRIP_VLAN", "OFPACT_POP_QUEUE", "OFPACT_EXIT",
                   "OFPACT_CLEAR_ACTIONS", "OFPACT_PUSH_L2", "OFPACT_POP_L2"} -> 4
      [] type \in {"OFPACT_SET_VLAN_VID", "OFPACT_SET_VLAN_PCP",
                   "OFPACT_PUSH_VLAN", "OFPACT_SET_IPV4_DSCP",
                   "OFPACT_SET_L4_SRC_PORT", "OFPACT_SET_L4_DST_PORT",
                   "OFPACT_PUSH_MPLS", "OFPACT_POP_MPLS",
                   "OFPACT_SET_MPLS_TTL", "OFPACT_GOTO_TABLE"} -> 6
      [] type \in {"OFPACT_OUTPUT", "OFPACT_SET_IPV4_SRC",
                   "OFPACT_SET_IPV4_DST", "OFPACT_SET_QUEUE",
                   "OFPACT_FIN_TIMEOUT", "OFPACT_RESUBMIT", "OFPACT_DEC_TTL",
                   "OFPACT_GROUP", "OFPACT_METER"} -> 8
      [] type \in {"OFPACT_SET_ETH_SRC", "OFPACT_SET_ETH_DST"} -> 10
      [] type \in {"OFPACT_CONTROLLER", "OFPACT_ENQUEUE"} -> 12
      [] type = "OFPACT_SET_TUNNEL" -> 16
      [] type = "OFPACT_WRITE_METADATA" -> 24
      [] type = "OFPACT_OUTPUT_REG" -> 32
      [] OTHER -> 8

EmptyBuf == [acts |-> <<>>, size |-> 0]

ofpbuf_clear(buf) == EmptyBuf

ofpact_pad(buf) == [buf EXCEPT !.size = ROUND_UP(buf.size, OFPACT_ALIGNTO)]

\* ofpact_init: the record is zeroed, then type, compat and len are set.
ofpact_init(type, len, ofs) ==
    [type |-> type, compat |-> INVALID, len |-> len, ofs |-> ofs, f |-> <<>>]

\* ofpact_put without the ofpact_pad() that precedes the new record.
ofpact_put_unpadded(buf, type, len) ==
    [acts |-> Append(buf.acts, ofpact_init(type, len, buf.size)),
     size |-> buf.size + len]

\* ofpact_put: pad, then append len bytes holding a fresh record; the new
\* record becomes the buffer's l2 (the last element of acts).
ofpact_put(buf, type, len) ==
    LET p == ofpact_pad(buf) IN
    [acts |-> Append(p.acts, ofpact_init(type, len, p.size)),
     size |-> p.size + len]

\* The record that l2 points at, and assignments through that pointer.
L2(buf) == buf.acts[Len(buf.acts)]
SetFields(buf, f) == [buf EXCEPT !.acts[Len(buf.acts)].f = f]
SetCompat(buf, compat) == [buf EXCEPT !.acts[Len(buf.acts)].compat = compat]

\* ofpact_put_<ENUM>(out) followed by the assignments of the fields f.
PutRecord(buf, type, f) == SetFields(ofpact_put(buf, type, OfpactSize(type)), f)

\* ofpbuf_put(out, &id, sizeof id): two more bytes at the tail, which are
\* the next element of the trailing array of the last record.
ofpbuf_put_id(buf, id) ==
    [acts |-> [buf.acts EXCEPT ![Len(buf.acts)].f = Append(@, id)],
     size |-> buf.size + 2]

\* ofpact_update_len(ofpacts, ofpacts->l2): len becomes tail - record.
ofpact_update_len(buf) ==
    [buf EXCEPT !.acts[Len(buf.acts)].len = buf.size - L2(buf).ofs]

\* The ovs_assert of ofpact_update_len: ofpact, the offset of the record
\* passed, is that of ofpacts->l2.
ofpact_update_len_assert(buf, ofpact) == ofpact = L2(buf).ofs

\* The error with which a decode ends in this model when the process is
\* aborted by a failed ovs_assert or by NOT_REACHED.
OVS_ABORT == "abort"

\* A NULL pointer.
NULL == -1

\* Result of a conversion: the error and the buffer as the call leaves it.
R(error, out) == [error |-> error, out |-> out]

\* ntohl of four wire bytes, as the pair of its 16-bit halves.
Ntohl(b, o) == <<Ntohs(b, o), Ntohs(b, o + 2)>>
Htonl(v) == Htons(v[1]) \o Htons(v[2])
\* ntohll of eight wire bytes, as its four 16-bit digits.
Ntohll(b, o) == <<Ntohs(b, o), Ntohs(b, o + 2), Ntohs(b, o + 4), Ntohs(b, o + 6)>>
Htonll(v) == Htons(v[1]) \o Htons(v[2]) \o Htons(v[3]) \o Htons(v[4])

(***************************************************************************)
(* Length/type decoder.                                                    *)
(***************************************************************************)
Decoded(error, code) == [error |-> error, code |-> code]

\* The vendor id compared before the length.
decode_nxast_action_vendor_first(c, b, o) ==
    LET len == Ntohs(b, o + 2) IN
    IF Bytes(b, o + 4, 4) # NX_VENDOR_ID
    THEN Decoded("OFPERR_OFPBAC_BAD_VENDOR", "")
    ELSE IF len < NxActionHeaderSize THEN Decoded("OFPERR_OFPBAC_BAD_LEN", "")
    ELSE LET subtype == Ntohs(b, o + 8) IN
         IF ~InTable(NXAST_ACTIONS(c), subtype)
         THEN Decoded("OFPERR_OFPBAC_BAD_TYPE", "")
         ELSE LET e == Lookup(NXAST_ACTIONS(c), subtype) IN
              IF LengthOk(e, len) THEN Decoded(OK, e.code)
              ELSE Decoded("OFPERR_OFPBAC_BAD_LEN", "")

decode_nxast_action(c, b, o) ==
    LET len == Ntohs(b, o + 2) IN
    IF len < NxActionHeaderSize THEN Decoded("OFPERR_OFPBAC_BAD_LEN", "")
    ELSE IF Bytes(b, o + 4, 4) # NX_VENDOR_ID
    THEN Decoded("OFPERR_OFPBAC_BAD_VENDOR", "")
    ELSE LET subtype == Ntohs(b, o + 8) IN
         IF ~InTable(NXAST_ACTIONS(c), subtype)
         THEN Decoded("OFPERR_OFPBAC_BAD_TYPE", "")
         ELSE LET e == Lookup(NXAST_ACTIONS(c), subtype) IN
              IF LengthOk(e, len) THEN Decoded(OK, e.code)
              ELSE Decoded("OFPERR_OFPBAC_BAD_LEN", "")

\* The classifier of OpenFlow 1.0 looking the type up among the OpenFlow
\* 1.1 actions.
decode_openflow10_action_v11(c, b, o) ==
    LET type == Ntohs(b, o) IN
    IF type = OFPAT_VENDOR THEN decode_nxast_action(c, b, o)
    ELSE IF ~InTable(OFPAT11_ACTIONS(c), type)
    THEN Decoded("OFPERR_OFPBAC_BAD_TYPE", "")
    ELSE LET e == Lookup(OFPAT11_ACTIONS(c), type) IN
         IF LengthOk(e, Ntohs(b, o + 2)) THEN Decoded(OK, e.code)
         ELSE Decoded("OFPERR_OFPBAC_BAD_LEN", "")

decode_openflow10_action(c, b, o) ==
    LET type == Ntohs(b, o) IN
    IF type = OFPAT_VENDOR THEN decode_nxast_action(c, b, o)
    ELSE IF ~InTable(OFPAT10_ACTIONS, type)
    THEN Decoded("OFPERR_OFPBAC_BAD_TYPE", "")
    ELSE LET e == Lookup(OFPAT10_ACTIONS, type) IN
         IF Ntohs(b, o + 2) = e.size THEN Decoded(OK, e.code)
         ELSE Decoded("OFPERR_OFPBAC_BAD_LEN", "")

decode_openflow11_action(c, b, o) ==
    LET type == Ntohs(b, o) IN
    IF type = OFPAT_VENDOR THEN decode_nxast_action(c, b, o)
    ELSE IF ~InTable(OFPAT11_ACTIONS(c), type)
    THEN Decoded("OFPERR_OFPBAC_BAD_TYPE", "")
    ELSE LET e == Lookup(OFPAT11_ACTIONS(c), type) IN
         IF LengthOk(e, Ntohs(b, o + 2)) THEN Decoded(OK, e.code)
         ELSE Decoded("OFPERR_OFPBAC_BAD_LEN", "")

(***************************************************************************)
(* Converting OpenFlow 1.0 and Nicira actions to ofpacts.                  *)
(***************************************************************************)
output_from_openflow10(b, o, out) ==
    LET port == Ntohs(b, o + 4) IN
    R(ofputil_check_output_port(port, OFPP_MAX),
      PutRecord(out, "OFPACT_OUTPUT", <<port, Ntohs(b, o + 6)>>))

enqueue_from_openflow10_inclusive(b, o, out) ==
    LET port == Ntohs(b, o + 4) IN
    R(IF port > OFPP_MAX /\ port # OFPP_IN_PORT /\ port # OFPP_LOCAL
      THEN "OFPERR_OFPBAC_BAD_OUT_PORT" ELSE OK,
      PutRecord(out, "OFPACT_ENQUEUE", <<port>> \o Ntohl(b, o + 12)))

enqueue_from_openflow10(b, o, out) ==
    LET port == Ntohs(b, o + 4) IN
    R(IF port >= OFPP_MAX /\ port # OFPP_IN_PORT /\ port # OFPP_LOCAL
      THEN "OFPERR_OFPBAC_BAD_OUT_PORT" ELSE OK,
      PutRecord(out, "OFPACT_ENQUEUE", <<port>> \o Ntohl(b, o + 12)))

resubmit_from_openflow(b, o, out) ==
    R(OK, SetCompat(PutRecord(out, "OFPACT_RESUBMIT", <<Ntohs(b, o + 10), 255>>),
                    "OFPUTIL_NXAST_RESUBMIT"))

resubmit_table_from_openflow(b, o, out) ==
    IF b[o + 14] # 0 \/ b[o + 15] # 0 \/ b[o + 16] # 0
    THEN R("OFPERR_OFPBAC_BAD_ARGUMENT", out)
    ELSE R(OK, SetCompat(PutRecord(out, "OFPACT_RESUBMIT",
                                   <<Ntohs(b, o + 10), b[o + 13]>>),
                         "OFPUTIL_NXAST_RESUBMIT_TABLE"))

\* The field registry (meta-flow.c) with the one field NXM_NX_REG0,
\* header 0x00010004, 32 bits wide.
NXM_NX_REG0 == <<0, 1, 0, 4>>
mf_from_nxm_header(h) == IF h = NXM_NX_REG0 THEN h ELSE <<>>
mf_check_src(field, ofs, n_bits) ==
    IF field = <<>> \/ ofs + n_bits > 32 THEN "OFPERR_OFPBAC_BAD_ARGUMENT"
    ELSE OK
nxm_decode_ofs(v) == v \div 64
nxm_decode_n_bits(v) == (v % 64) + 1
nxm_encode_ofs_nbits(ofs, n_bits) == ofs * 64 + (n_bits - 1)

\* The internal record keeps the wire header of the field in place of the
\* pointer to its descriptor: f = field (4 bytes, or none), ofs, n_bits,
\* max_len.
output_reg_from_openflow(b, o, out) ==
    IF ~is_all_zeros(b, o + 18, 6) THEN R("OFPERR_OFPBAC_BAD_ARGUMENT", out)
    ELSE LET field == mf_from_nxm_header(Bytes(b, o + 12, 4))
             ofs == nxm_decode_ofs(Ntohs(b, o + 10))
             n_bits == nxm_decode_n_bits(Ntohs(b, o + 10))
         IN R(mf_check_src(field, ofs, n_bits),
              PutRecord(out, "OFPACT_OUTPUT_REG",
                        <<ofs, n_bits, Ntohs(b, o + 16)>> \o field))

fin_timeout_from_openflow(b, o, out) ==
    R(OK, PutRecord(out, "OFPACT_FIN_TIMEOUT",
                    <<Ntohs(b, o + 10), Ntohs(b, o + 12)>>))

controller_from_openflow(b, o, out) ==
    R(OK, PutRecord(out, "OFPACT_CONTROLLER",
                    <<Ntohs(b, o + 10), Ntohs(b, o + 12), b[o + 15]>>))

metadata_from_nxast(b, o, out) ==
    IF ~is_all_zeros(b, o + 10, 6) THEN R("OFPERR_NXBRC_MUST_BE_ZERO", out)
    ELSE R(OK, PutRecord(out, "OFPACT_WRITE_METADATA", Bytes(b, o + 16, 16)))

\* offsetof(struct nx_action_note, note) is 10.
note_from_openflow(b, o, out) ==
    LET length == Ntohs(b, o + 2) - 10 IN
    R(OK, SetFields(ofpact_put(out, "OFPACT_NOTE", OfpactNoteDataOffset + length),
                    <<length>> \o Bytes(b, o + 10, length)))

dec_ttl_from_openflow(out, compat) ==
    LET ids == SetCompat(PutRecord(out, "OFPACT_DEC_TTL", <<1>>), compat)
        Update(buf) ==      \* ids = out->l2; ofpact_update_len(out, &ids->ofpact)
            IF ofpact_update_len_assert(buf, L2(buf).ofs)
            THEN R(OK, ofpact_update_len(buf))
            ELSE R(OVS_ABORT, buf)
    IN Update(ofpbuf_put_id(ids, 0))

RECURSIVE PutIds(_, _, _, _, _)
\* The loop of dec_ttl_cnt_ids_from_openflow: ids i..n-1 of the wire array
\* that follows the fixed struct (16 bytes).  The bound of the loop is
\* ids->n_controllers, read through the pointer that ofpact_put_DEC_TTL
\* returned: n as long as no ofpbuf_put was made or none moved the buffer,
\* otherwise whatever the old storage of the buffer holds.
PutIds(b, o, out, i, n) ==
    IF i >= (IF i = 0 \/ stale = NULL THEN n ELSE stale) THEN out
    ELSE PutIds(b, o, ofpbuf_put_id(out, Ntohs(b, o + 16 + 2 * i)), i + 1, n)

dec_ttl_cnt_ids_from_openflow(b, o, out) ==
    LET n_controllers == Ntohs(b, o + 10)
        ids == SetCompat(PutRecord(out, "OFPACT_DEC_TTL", <<n_controllers>>),
                         "OFPUTIL_NXAST_DEC_TTL_CNT_IDS")
        ids_size == Ntohs(b, o + 2) - 16
    IN IF ~is_all_zeros(b, o + 12, 4) THEN R("OFPERR_NXBRC_MUST_BE_ZERO", ids)
       ELSE IF ids_size < n_controllers * 2 THEN R("OFPERR_OFPBAC_BAD_LEN", ids)
       ELSE LET Update(buf) ==
                    IF ofpact_update_len_assert(buf, L2(buf).ofs)
                    THEN R(OK, ofpact_update_len(buf))
                    ELSE R(OVS_ABORT, buf)
            IN Update(PutIds(b, o, ids, 0, n_controllers))

\* A sub-codec (nx-match.c, learn.c, multipath.c, bundle.c): the record
\* keeps the wire bytes of the action, which the sub-codec's encoder writes
\* back.
subcodec_from_openflow(b, o, out, type) ==
    R(OK, PutRecord(out, type, Bytes(b, o, Ntohs(b, o + 2))))

ofpact_from_nxast(b, o, code, out) ==
    CASE code = "OFPUTIL_NXAST_RESUBMIT" -> resubmit_from_openflow(b, o, out)
      [] code = "OFPUTIL_NXAST_SET_TUNNEL" ->
           R(OK, SetCompat(PutRecord(out, "OFPACT_SET_TUNNEL",
                                     <<0, 0>> \o Ntohl(b, o + 12)), code))
      [] code = "OFPUTIL_NXAST_WRITE_METADATA" -> metadata_from_nxast(b, o, out)
      [] code = "OFPUTIL_NXAST_SET_QUEUE" ->
           R(OK, PutRecord(out, "OFPACT_SET_QUEUE", Ntohl(b, o + 12)))
      [] code = "OFPUTIL_NXAST_POP_QUEUE" ->
           R(OK, PutRecord(out, "OFPACT_POP_QUEUE", <<>>))
      [] code = "OFPUTIL_NXAST_REG_MOVE" ->
           subcodec_from_openflow(b, o, out, "OFPACT_REG_MOVE")
      [] code = "OFPUTIL_NXAST_REG_LOAD" ->
           subcodec_from_openflow(b, o, out, "OFPACT_REG_LOAD")
      [] code = "OFPUTIL_NXAST_NOTE" -> note_from_openflow(b, o, out)
      [] code = "OFPUTIL_NXAST_SET_TUNNEL64" ->
           R(OK, SetCompat(PutRecord(out, "OFPACT_SET_TUNNEL",
                                     Ntohll(b, o + 16)), code))
      [] code = "OFPUTIL_NXAST_MULTIPATH" ->
           subcodec_from_openflow(b, o, out, "OFPACT_MULTIPATH")
      [] code \in {"OFPUTIL_NXAST_BUNDLE", "OFPUTIL_NXAST_BUNDLE_LOAD"} ->
           subcodec_from_openflow(b, o, out, "OFPACT_BUNDLE")
      [] code = "OFPUTIL_NXAST_OUTPUT_REG" -> output_reg_from_openflow(b, o, out)
      [] code = "OFPUTIL_NXAST_RESUBMIT_TABLE" ->
           resubmit_table_from_openflow(b, o, out)
      [] code = "OFPUTIL_NXAST_LEARN" ->
           subcodec_from_openflow(b, o, out, "OFPACT_LEARN")
      [] code = "OFPUTIL_NXAST_EXIT" -> R(OK, PutRecord(out, "OFPACT_EXIT", <<>>))
      [] code = "OFPUTIL_NXAST_DEC_TTL" -> dec_ttl_from_openflow(out, code)
      [] code = "OFPUTIL_NXAST_DEC_TTL_CNT_IDS" ->
           dec_ttl_cnt_ids_from_openflow(b, o, out)
      [] code = "OFPUTIL_NXAST_FIN_TIMEOUT" -> fin_timeout_from_openflow(b, o, out)
      [] code = "OFPUTIL_NXAST_CONTROLLER" -> controller_from_openflow(b, o, out)
      [] code = "OFPUTIL_NXAST_PUSH_MPLS" ->
           IF ~eth_type_mpls(Ntohs(b, o + 10))
           THEN R("OFPERR_OFPBAC_BAD_ARGUMENT", out)
           ELSE R(OK, PutRecord(out, "OFPACT_PUSH_MPLS", Bytes(b, o + 10, 2)))
      [] code = "OFPUTIL_NXAST_POP_MPLS" ->
           IF eth_type_mpls(Ntohs(b, o + 10))
           THEN R("OFPERR_OFPBAC_BAD_ARGUMENT", out)
           ELSE R(OK, PutRecord(out, "OFPACT_POP_MPLS", Bytes(b, o + 10, 2)))
      [] code = "OFPUTIL_NXAST_PUSH_L2" -> R(OK, PutRecord(out, "OFPACT_PUSH_L2", <<>>))
      [] code = "OFPUTIL_NXAST_POP_L2" -> R(OK, PutRecord(out, "OFPACT_POP_L2", <<>>))
      [] OTHER -> R(OVS_ABORT, out)    \* OFPUTIL_ACTION_INVALID, OFPAT10, OFPAT11

IsNxast(code) == \E e \in NXAST_ACTIONS(TRUE) : e.code = code

ofpact_from_openflow10(c, b, o, out) ==
    LET Convert(error, code) ==
       IF error # OK THEN R(error, out)
       ELSE CASE code = "OFPUTIL_OFPAT10_OUTPUT" -> output_from_openflow10(b, o, out)
              [] code = "OFPUTIL_OFPAT10_SET_VLAN_VID" ->
                   IF Ntohs(b, o + 4) >= 4096
                   THEN R("OFPERR_OFPBAC_BAD_ARGUMENT", out)
                   ELSE R(OK, PutRecord(out, "OFPACT_SET_VLAN_VID",
                                        <<Ntohs(b, o + 4)>>))
              [] code = "OFPUTIL_OFPAT10_SET_VLAN_PCP" ->
                   IF b[o + 5] >= 8 THEN R("OFPERR_OFPBAC_BAD_ARGUMENT", out)
                   ELSE R(OK, PutRecord(out, "OFPACT_SET_VLAN_PCP", <<b[o + 5]>>))
              [] code = "OFPUTIL_OFPAT10_STRIP_VLAN" ->
                   R(OK, PutRecord(out, "OFPACT_STRIP_VLAN", <<>>))
              [] code = "OFPUTIL_OFPAT10_SET_DL_SRC" ->
                   R(OK, PutRecord(out, "OFPACT_SET_ETH_SRC", Bytes(b, o + 4, 6)))
              [] code = "OFPUTIL_OFPAT10_SET_DL_DST" ->
                   R(OK, PutRecord(out, "OFPACT_SET_ETH_DST", Bytes(b, o + 4, 6)))
              [] code = "OFPUTIL_OFPAT10_SET_NW_SRC" ->
                   R(OK, PutRecord(out, "OFPACT_SET_IPV4_SRC", Bytes(b, o + 4, 4)))
              [] code = "OFPUTIL_OFPAT10_SET_NW_DST" ->
                   R(OK, PutRecord(out, "OFPACT_SET_IPV4_DST", Bytes(b, o + 4, 4)))
              [] code = "OFPUTIL_OFPAT10_SET_NW_TOS" ->
                   IF b[o + 5] % 4 # 0 THEN R("OFPERR_OFPBAC_BAD_ARGUMENT", out)
                   ELSE R(OK, PutRecord(out, "OFPACT_SET_IPV4_DSCP", <<b[o + 5]>>))
              [] code = "OFPUTIL_OFPAT10_SET_TP_SRC" ->
                   R(OK, PutRecord(out, "OFPACT_SET_L4_SRC_PORT",
                                   <<Ntohs(b, o + 4)>>))
              [] code = "OFPUTIL_OFPAT10_SET_TP_DST" ->
                   R(OK, PutRecord(out, "OFPACT_SET_L4_DST_PORT",
                                   <<Ntohs(b, o + 4)>>))
              [] code = "OFPUTIL_OFPAT10_ENQUEUE" ->
                   enqueue_from_openflow10(b, o, out)
              [] IsNxast(code) -> ofpact_from_nxast(b, o, code, out)
              [] OTHER -> R(OVS_ABORT, out)   \* OFPUTIL_ACTION_INVALID, OFPAT11
        Switch(d) == Convert(d.error, d.code)
    IN Switch(decode_openflow10_action(c, b, o))

(***************************************************************************)
(* Converting OpenFlow 1.1 actions to ofpacts.                             *)
(***************************************************************************)
output_from_openflow11(b, o, out) ==
    LET p == ofputil_port_from_ofp11(Bytes(b, o + 4, 4))
        output == PutRecord(out, "OFPACT_OUTPUT", <<p.port, Ntohs(b, o + 8)>>)
    IN IF p.error # OK THEN R(p.error, output)
       ELSE R(ofputil_check_output_port(p.port, OFPP_MAX), output)

\* Without _OFP_CENTEC_ the arm checks the ethertype, puts one PUSH_VLAN
\* record and then falls into the shared statement that puts a PUSH_VLAN
\* record and sets its ethertype; with _OFP_CENTEC_ only the shared
\* statement runs.
push_vlan_from_openflow11(c, b, o, out) ==
    IF c THEN R(OK, PutRecord(out, "OFPACT_PUSH_VLAN", Bytes(b, o + 4, 2)))
    ELSE IF Ntohs(b, o + 4) # ETH_TYPE_VLAN_8021Q
    THEN R("OFPERR_OFPBAC_BAD_ARGUMENT", out)
    ELSE R(OK, PutRecord(PutRecord(out, "OFPACT_PUSH_VLAN", <<0, 0>>),
                         "OFPACT_PUSH_VLAN", Bytes(b, o + 4, 2)))

ofpact_from_openflow11(c, b, o, out) ==
    LET Convert(error, code) ==
       IF error # OK THEN R(error, out)
       ELSE CASE code = "OFPUTIL_OFPAT11_OUTPUT" -> output_from_openflow11(b, o, out)
              [] code = "OFPUTIL_OFPAT11_SET_VLAN_VID" ->
                   IF Ntohs(b, o + 4) >= 4096
                   THEN R("OFPERR_OFPBAC_BAD_ARGUMENT", out)
                   ELSE R(OK, PutRecord(out, "OFPACT_SET_VLAN_VID",
                                        <<Ntohs(b, o + 4)>>))
              [] code = "OFPUTIL_OFPAT11_SET_VLAN_PCP" ->
                   IF b[o + 5] >= 8 THEN R("OFPERR_OFPBAC_BAD_ARGUMENT", out)
                   ELSE R(OK, PutRecord(out, "OFPACT_SET_VLAN_PCP", <<b[o + 5]>>))
              [] code = "OFPUTIL_OFPAT11_PUSH_VLAN" ->
                   push_vlan_from_openflow11(c, b, o, out)
              [] code = "OFPUTIL_OFPAT11_POP_VLAN" ->
                   R(OK, PutRecord(out, "OFPACT_STRIP_VLAN", <<>>))
              [] code = "OFPUTIL_OFPAT11_SET_QUEUE" ->
                   R(OK, PutRecord(out, "OFPACT_SET_QUEUE", Ntohl(b, o + 4)))
              [] code = "OFPUTIL_OFPAT11_SET_DL_SRC" ->
                   R(OK, PutRecord(out, "OFPACT_SET_ETH_SRC", Bytes(b, o + 4, 6)))
              [] code = "OFPUTIL_OFPAT11_SET_DL_DST" ->
                   R(OK, PutRecord(out, "OFPACT_SET_ETH_DST", Bytes(b, o + 4, 6)))
              [] code = "OFPUTIL_OFPAT11_DEC_NW_TTL" ->
                   R(OK, dec_ttl_from_openflow(out, code).out)
              [] code = "OFPUTIL_OFPAT11_SET_NW_SRC" ->
                   R(OK, PutRecord(out, "OFPACT_SET_IPV4_SRC", Bytes(b, o + 4, 4)))
              [] code = "OFPUTIL_OFPAT11_SET_NW_DST" ->
                   R(OK, PutRecord(out, "OFPACT_SET_IPV4_DST", Bytes(b, o + 4, 4)))
              [] code = "OFPUTIL_OFPAT11_SET_NW_TOS" ->
                   IF b[o + 5] % 4 # 0 THEN R("OFPERR_OFPBAC_BAD_ARGUMENT", out)
                   ELSE R(OK, PutRecord(out, "OFPACT_SET_IPV4_DSCP", <<b[o + 5]>>))
              [] code = "OFPUTIL_OFPAT11_SET_TP_SRC" ->
                   R(OK, PutRecord(out, "OFPACT_SET_L4_SRC_PORT",
                                   <<Ntohs(b, o + 4)>>))
              [] code = "OFPUTIL_OFPAT11_SET_TP_DST" ->
                   R(OK, PutRecord(out, "OFPACT_SET_L4_DST_PORT",
                                   <<Ntohs(b, o + 4)>>))
              [] code = "OFPUTIL_OFPAT12_SET_FIELD" ->
                   LET r == subcodec_from_openflow(b, o, out, "OFPACT_REG_LOAD")
                   IN R(OK, SetCompat(r.out, "OFPUTIL_OFPAT12_SET_FIELD"))
              [] code = "OFPUTIL_OFPAT11_PUSH_MPLS" ->
                   IF ~c /\ ~eth_type_mpls(Ntohs(b, o + 4))
                   THEN R("OFPERR_OFPBAC_BAD_ARGUMENT", out)
                   ELSE R(OK, PutRecord(out, "OFPACT_PUSH_MPLS", Bytes(b, o + 4, 2)))
              [] code = "OFPUTIL_OFPAT11_POP_MPLS" ->
                   IF ~c /\ eth_type_mpls(Ntohs(b, o + 4))
                   THEN R("OFPERR_OFPBAC_BAD_ARGUMENT", out)
                   ELSE R(OK, PutRecord(out, "OFPACT_POP_MPLS", Bytes(b, o + 4, 2)))
              [] code = "OFPUTIL_OFPAT11_GROUP" ->
                   R(OK, PutRecord(out, "OFPACT_GROUP", Ntohl(b, o + 4)))
              [] code = "OFPUTIL_OFPAT11_SET_MPLS_TTL" ->
                   R(OK, PutRecord(out, "OFPACT_SET_MPLS_TTL", <<b[o + 5]>>))
              [] IsNxast(code) -> ofpact_from_nxast(b, o, code, out)
              [] code = INVALID \/ \E e \in OFPAT10_ACTIONS : e.code = code ->
                   R(OVS_ABORT, out)
              [] OTHER -> R(OK, out)
        Switch(d) == Convert(d.error, d.code)
    IN Switch(decode_openflow11_action(c, b, o))

(***************************************************************************)
(* The length-safe walk over an action list (ACTION_FOR_EACH) and          *)
(* ofpacts_from_openflow.                                                  *)
(***************************************************************************)
\* The test of the walk without the alignment of len.
action_is_valid_unaligned(b, a, n_actions) ==
    LET len == Ntohs(b, a + 2) IN
    /\ len >= OfpActionSize
    /\ len \div OfpActionSize <= n_actions

action_is_valid(b, a, n_actions) ==
    LET len == Ntohs(b, a + 2) IN
    /\ len % OFP_ACTION_ALIGN = 0
    /\ len >= OfpActionSize
    /\ len \div OfpActionSize <= n_actions

\* The per-action converter selected by the function pointer.
ofpact_from_openflow(version, c, b, a, out) ==
    IF version = 10 THEN ofpact_from_openflow10(c, b, a, out)
    ELSE ofpact_from_openflow11(c, b, a, out)

RECURSIVE ofpacts_from_openflow_loop_lenient(_, _, _, _, _, _)
\* The walk without the test of 'left' after the loop: bytes that no valid
\* action covers are ignored.
ofpacts_from_openflow_loop_lenient(version, c, b, a, left, out) ==
    LET Body(r) ==
         IF r.error # OK THEN r
         ELSE ofpacts_from_openflow_loop_lenient(
                  version, c, b, a + Ntohs(b, a + 2),
                  left - Ntohs(b, a + 2) \div OfpActionSize, r.out)
    IN
    IF left > 0 /\ action_is_valid(b, a, left)
    THEN Body(ofpact_from_openflow(version, c, b, a, out))
    ELSE R(OK, ofpact_pad(out))

RECURSIVE ofpacts_from_openflow_loop(_, _, _, _, _, _)
\* One evaluation of the loop condition with the cursor at byte offset a of
\* b and 'left' units remaining, the loop body, and the code after the loop.
ofpacts_from_openflow_loop(version, c, b, a, left, out) ==
    LET Body(r) ==
         IF r.error # OK THEN r
         ELSE ofpacts_from_openflow_loop(
                  version, c, b, a + Ntohs(b, a + 2),
                  left - Ntohs(b, a + 2) \div OfpActionSize, r.out)
    IN
    IF left > 0 /\ action_is_valid(b, a, left)
    THEN Body(ofpact_from_openflow(version, c, b, a, out))
    ELSE IF left # 0 THEN R("OFPERR_OFPBAC_BAD_LEN", out)
    ELSE R(OK, ofpact_pad(out))

\* 'in' is the n_in units of b that start at byte offset base.
ofpacts_from_openflow(version, c, b, base, n_in, out) ==
    ofpacts_from_openflow_loop(version, c, b, base, n_in, out)

(***************************************************************************)
(* ofpacts_verify: the instruction order of an internal list.              *)
(***************************************************************************)
\* VerifyCategory without the OFPACT_WRITE_METADATA arm.
VerifyCategory_metadata_as_apply(a) ==
    IF a.type = "OFPACT_CLEAR_ACTIONS" THEN OVSINST_CLEAR
    ELSE IF a.type = "OFPACT_GOTO_TABLE" THEN OVSINST_GOTO_TABLE
    ELSE OVSINST_APPLY

VerifyCategory(a) ==
    IF a.type = "OFPACT_CLEAR_ACTIONS" THEN OVSINST_CLEAR
    ELSE IF a.type = "OFPACT_WRITE_METADATA" THEN OVSINST_WRITE_METADATA
    ELSE IF a.type = "OFPACT_GOTO_TABLE" THEN OVSINST_GOTO_TABLE
    ELSE OVSINST_APPLY

RECURSIVE ofpacts_verify_loop_strict(_, _, _)
\* ofpacts_verify with < in place of <=: a repeated category passes.
ofpacts_verify_loop_strict(acts, i, inst) ==
    IF i > Len(acts) THEN OK
    ELSE LET next == VerifyCategory(acts[i]) IN
         IF inst # OVSINST_APPLY /\ next < inst
         THEN "OFPERR_OFPBAC_UNSUPPORTED_ORDER"
         ELSE ofpacts_verify_loop_strict(acts, i + 1, next)

RECURSIVE ofpacts_verify_loop(_, _, _)
ofpacts_verify_loop(acts, i, inst) ==
    IF i > Len(acts) THEN OK
    ELSE LET next == VerifyCategory(acts[i]) IN
         IF inst # OVSINST_APPLY /\ next <= inst
         THEN "OFPERR_OFPBAC_UNSUPPORTED_ORDER"
         ELSE ofpacts_verify_loop(acts, i + 1, next)

ofpacts_verify(acts) == ofpacts_verify_loop(acts, 1, OVSINST_APPLY)

(***************************************************************************)
(* ofpacts_pull_actions, ofpacts_pull_openflow10 and                       *)
(* ofpacts_pull_openflow11_actions.                                        *)
(***************************************************************************)
\* Result of a pull: the error, the wire buffer and the internal buffer as
\* the call leaves them.
P(error, wire, out) == [error |-> error, openflow |-> wire, ofpacts |-> out]

\* ofpbuf_try_pull(openflow, n) is NULL when n exceeds the buffer's size.
CanPull(wire, n) == n <= Len(wire)
Rest(wire, n) == SubSeq(wire, n + 1, Len(wire))

\* ofpacts_pull_actions with the ofpbuf_clear() of its error paths left out.
ofpacts_pull_actions_keep(version, c, wire, actions_len, buf) ==
    LET cleared == ofpbuf_clear(buf) IN
    IF actions_len % OFP_ACTION_ALIGN # 0
    THEN P("OFPERR_OFPBRC_BAD_LEN", wire, cleared)
    ELSE IF ~CanPull(wire, actions_len)
    THEN P("OFPERR_OFPBRC_BAD_LEN", wire, cleared)
    ELSE LET rest == Rest(wire, actions_len)
             Translated(t) ==
                IF t.error # OK THEN P(t.error, rest, t.out)
                ELSE P(ofpacts_verify(t.out.acts), rest, t.out)
         IN Translated(ofpacts_from_openflow(version, c, wire, 0,
                                             actions_len \div OFP_ACTION_ALIGN,
                                             cleared))

\* The bytes put back when a record is refused.
ofpacts_pull_actions_unpull(version, c, wire, actions_len, buf) ==
    LET cleared == ofpbuf_clear(buf) IN
    IF actions_len % OFP_ACTION_ALIGN # 0
    THEN P("OFPERR_OFPBRC_BAD_LEN", wire, cleared)
    ELSE IF ~CanPull(wire, actions_len)
    THEN P("OFPERR_OFPBRC_BAD_LEN", wire, cleared)
    ELSE LET rest == Rest(wire, actions_len)
             Verified(error, out) ==
                IF error # OK THEN P(error, rest, ofpbuf_clear(out))
                ELSE P(error, rest, out)
             Translated(t) ==
                IF t.error # OK THEN P(t.error, wire, ofpbuf_clear(t.out))
                ELSE Verified(ofpacts_verify(t.out.acts), t.out)
         IN Translated(ofpacts_from_openflow(version, c, wire, 0,
                                             actions_len \div OFP_ACTION_ALIGN,
                                             cleared))

ofpacts_pull_actions(version, c, wire, actions_len, buf) ==
    LET cleared == ofpbuf_clear(buf) IN
    IF actions_len % OFP_ACTION_ALIGN # 0
    THEN P("OFPERR_OFPBRC_BAD_LEN", wire, cleared)
    ELSE IF ~CanPull(wire, actions_len)
    THEN P("OFPERR_OFPBRC_BAD_LEN", wire, cleared)
    ELSE LET rest == Rest(wire, actions_len)
             Verified(error, out) ==
                IF error # OK THEN P(error, rest, ofpbuf_clear(out))
                ELSE P(error, rest, out)
             Translated(t) ==
                IF t.error # OK THEN P(t.error, rest, ofpbuf_clear(t.out))
                ELSE Verified(ofpacts_verify(t.out.acts), t.out)
         IN Translated(ofpacts_from_openflow(version, c, wire, 0,
                                             actions_len \div OFP_ACTION_ALIGN,
                                             cleared))

ofpacts_pull_openflow10(c, wire, actions_len, buf) ==
    ofpacts_pull_actions(10, c, wire, actions_len, buf)

ofpacts_pull_openflow11_actions(c, wire, actions_len, buf) ==
    ofpacts_pull_actions(11, c, wire, actions_len, buf)
(***************************************************************************)
(* OpenFlow 1.1 instructions: INSTRUCTION_FOR_EACH, classification, the    *)
(* at-most-one-of-each array and ofpacts_pull_openflow11_instructions.     *)
(***************************************************************************)
instruction_is_valid(b, i, n_instructions) ==
    LET len == Ntohs(b, i + 2) IN
    /\ len % OFP11_INSTRUCTION_ALIGN = 0
    /\ len >= Ofp11InstructionSize
    /\ len \div Ofp11InstructionSize <= n_instructions

\* [error, type]: type is the enum ovs_instruction_type of the record.
decode_openflow11_instruction(b, i) ==
    LET type == Ntohs(b, i)
        len == Ntohs(b, i + 2)
    IN IF type = OFPIT11_EXPERIMENTER
       THEN [error |-> "OFPERR_OFPBIC_BAD_EXPERIMENTER", type |-> 0]
       ELSE IF ~InTable(OVS_INSTRUCTIONS, type)
       THEN [error |-> "OFPERR_OFPBIC_UNKNOWN_INST", type |-> 0]
       ELSE LET e == Lookup(OVS_INSTRUCTIONS, type) IN
            IF LengthOk(e, len) THEN [error |-> OK, type |-> e.code]
            ELSE [error |-> "OFPERR_OFPBIC_BAD_LEN", type |-> 0]

NoInsts == [t \in 0..(N_OVS_INSTRUCTIONS - 1) |-> NULL]

RECURSIVE decode_openflow11_instructions_loop_last(_, _, _, _)
\* The walk without the test of out[type]: a later instruction of a kind
\* replaces the earlier one.
decode_openflow11_instructions_loop_last(b, i, left, out) ==
    LET Body(d) ==
         IF d.error # OK THEN [error |-> d.error, insts |-> out]
         ELSE decode_openflow11_instructions_loop_last(
                  b, i + Ntohs(b, i + 2),
                  left - Ntohs(b, i + 2) \div Ofp11InstructionSize,
                  [out EXCEPT ![d.type] = i])
    IN
    IF left > 0 /\ instruction_is_valid(b, i, left)
    THEN Body(decode_openflow11_instruction(b, i))
    ELSE IF left # 0 THEN [error |-> "OFPERR_OFPBIC_BAD_LEN", insts |-> out]
    ELSE [error |-> OK, insts |-> out]

RECURSIVE decode_openflow11_instructions_loop(_, _, _, _)
\* out[type] is the byte offset in b of the instruction of that type.
decode_openflow11_instructions_loop(b, i, left, out) ==
    LET Body(d) ==
         IF d.error # OK THEN [error |-> d.error, insts |-> out]
         ELSE IF out[d.type] # NULL
         THEN [error |-> "OFPERR_OFPBAC_UNSUPPORTED_ORDER", insts |-> out]
         ELSE decode_openflow11_instructions_loop(
                  b, i + Ntohs(b, i + 2),
                  left - Ntohs(b, i + 2) \div Ofp11InstructionSize,
                  [out EXCEPT ![d.type] = i])
    IN
    IF left > 0 /\ instruction_is_valid(b, i, left)
    THEN Body(decode_openflow11_instruction(b, i))
    ELSE IF left # 0 THEN [error |-> "OFPERR_OFPBIC_BAD_LEN", insts |-> out]
    ELSE [error |-> OK, insts |-> out]

RECURSIVE FOR_EACH(_, _, _, _)
\* ACTION_FOR_EACH and, for instructions, INSTRUCTION_FOR_EACH with a body
\* that does not leave the loop: the values of ITER (a byte offset of b)
\* and LEFT with which the body runs, in order.
FOR_EACH(b, iter, left, instructions) ==
    IF left > 0 /\ (IF instructions THEN instruction_is_valid(b, iter, left)
                    ELSE action_is_valid(b, iter, left))
    THEN <<[iter |-> iter, left |-> left]>>
             \o FOR_EACH(b, iter + Ntohs(b, iter + 2),
                         left - Ntohs(b, iter + 2)
                                    \div (IF instructions THEN Ofp11InstructionSize
                                          ELSE OfpActionSize),
                         instructions)
    ELSE <<>>

decode_openflow11_instructions(b, n_insts) ==
    decode_openflow11_instructions_loop(b, 0, n_insts, NoInsts)

\* get_actions_from_instruction: the actions start after the 8-byte
\* header; n_actions = (len - 8) / 8.
InstActions(b, inst) == inst + Ofp11InstructionSize
InstNActions(b, inst) ==
    (Ntohs(b, inst + 2) - Ofp11InstructionSize) \div OFP11_INSTRUCTION_ALIGN

\* The steps of ofpacts_pull_openflow11_instructions after the array is
\* filled, each taking and giving R(error, out); a step is skipped once an
\* error is set (goto exit).
\* The ovs_assert of instruction_get_<ENUM>(inst): the wire type of the
\* instruction at offset inst is ENUM, the wire type of the kind.
instruction_get(b, inst, type) ==
    Ntohs(b, inst) = EntryOf(OVS_INSTRUCTIONS, type).enum

InstMeter(c, b, insts, r) ==
    IF r.error = OK /\ c /\ insts[OVSINST_METER] # NULL
    THEN IF ~instruction_get(b, insts[OVSINST_METER], OVSINST_METER)
         THEN R(OVS_ABORT, r.out)
         ELSE R(OK, PutRecord(r.out, "OFPACT_METER",
                              Ntohl(b, insts[OVSINST_METER] + 4)))
    ELSE r

InstApply(c, b, insts, r) ==
    IF r.error = OK /\ insts[OVSINST_APPLY] # NULL
    THEN ofpacts_from_openflow(11, c, b, InstActions(b, insts[OVSINST_APPLY]),
                               InstNActions(b, insts[OVSINST_APPLY]), r.out)
    ELSE r

InstClear(c, b, insts, r) ==
    IF r.error = OK /\ insts[OVSINST_CLEAR] # NULL
    THEN IF ~instruction_get(b, insts[OVSINST_CLEAR], OVSINST_CLEAR)
         THEN R(OVS_ABORT, r.out)
         ELSE R(OK, PutRecord(r.out, "OFPACT_CLEAR_ACTIONS", <<>>))
    ELSE r

\* Under _OFP_CENTEC_: write-actions next to apply-actions is refused,
\* otherwise its action list is converted like that of apply-actions.
InstWriteActionsCentec(c, b, insts, r) ==
    IF r.error = OK /\ c /\ insts[OVSINST_WRITE_ACTIONS] # NULL
    THEN IF insts[OVSINST_APPLY] # NULL THEN R("OFPERR_OFPBIC_UNSUP_INST", r.out)
         ELSE ofpacts_from_openflow(
                  11, c, b, InstActions(b, insts[OVSINST_WRITE_ACTIONS]),
                  InstNActions(b, insts[OVSINST_WRITE_ACTIONS]), r.out)
    ELSE r

InstWriteMetadata(c, b, insts, r) ==
    IF r.error = OK /\ insts[OVSINST_WRITE_METADATA] # NULL
    THEN IF c THEN R("OFPERR_OFPBIC_UNSUP_INST", r.out)
         ELSE R(OK, PutRecord(r.out, "OFPACT_WRITE_METADATA",
                              Bytes(b, insts[OVSINST_WRITE_METADATA] + 8, 16)))
    ELSE r

InstGotoTable(c, b, insts, r) ==
    IF r.error = OK /\ insts[OVSINST_GOTO_TABLE] # NULL
    THEN IF c THEN R("OFPERR_OFPBIC_UNSUP_INST", r.out)
         ELSE IF ~instruction_get(b, insts[OVSINST_GOTO_TABLE], OVSINST_GOTO_TABLE)
         THEN R(OVS_ABORT, r.out)
         ELSE R(OK, PutRecord(r.out, "OFPACT_GOTO_TABLE",
                              <<b[insts[OVSINST_GOTO_TABLE] + 5]>>))
    ELSE r

InstWriteActions(c, b, insts, r) ==
    IF r.error = OK /\ ~c /\ insts[OVSINST_WRITE_ACTIONS] # NULL
    THEN R("OFPERR_OFPBIC_UNSUP_INST", r.out)
    ELSE r

InstVerify(r) == IF r.error = OK THEN R(ofpacts_verify(r.out.acts), r.out) ELSE r

\* The label exit: on error the buffer is cleared.
InstExit(r) == IF r.error # OK THEN R(r.error, ofpbuf_clear(r.out)) ELSE r

\* The framer with the goto-table step moved before the clear-actions step.
ofpacts_pull_openflow11_instructions_goto_first(c, wire, instructions_len, buf) ==
    LET cleared == ofpbuf_clear(buf)
        Return(x, rest) == P(x.error, rest, x.out)
        Steps(d) ==
            LET r0 == R(d.error, cleared)
                r1 == InstMeter(c, wire, d.insts, r0)
                r2 == InstApply(c, wire, d.insts, r1)
                r3 == InstGotoTable(c, wire, d.insts, r2)
                r4 == InstClear(c, wire, d.insts, r3)
                r5 == InstWriteActionsCentec(c, wire, d.insts, r4)
                r6 == InstWriteMetadata(c, wire, d.insts, r5)
                r7 == InstWriteActions(c, wire, d.insts, r6)
            IN Return(InstExit(InstVerify(r7)), Rest(wire, instructions_len))
    IN
    IF instructions_len % OFP11_INSTRUCTION_ALIGN # 0
    THEN Return(InstExit(R("OFPERR_OFPBIC_BAD_LEN", cleared)), wire)
    ELSE IF ~CanPull(wire, instructions_len)
    THEN Return(InstExit(R("OFPERR_OFPBIC_BAD_LEN", cleared)), wire)
    ELSE Steps(decode_openflow11_instructions(
                   wire, instructions_len \div OFP11_INSTRUCTION_ALIGN))

\* The framer emitting clear_actions and goto_table in their wire order.
ofpacts_pull_openflow11_instructions_wire_order(c, wire, instructions_len, buf) ==
    LET cleared == ofpbuf_clear(buf)
        Return(x, rest) == P(x.error, rest, x.out)
        Steps(d) ==
            LET r0 == R(d.error, cleared)
                r1 == InstMeter(c, wire, d.insts, r0)
                r2 == InstApply(c, wire, d.insts, r1)
                r4 == IF d.insts[OVSINST_GOTO_TABLE] < d.insts[OVSINST_CLEAR]
                      THEN InstClear(c, wire, d.insts,
                                     InstGotoTable(c, wire, d.insts, r2))
                      ELSE InstGotoTable(c, wire, d.insts,
                                         InstClear(c, wire, d.insts, r2))
                r5 == InstWriteActionsCentec(c, wire, d.insts, r4)
                r6 == InstWriteMetadata(c, wire, d.insts, r5)
                r7 == InstWriteActions(c, wire, d.insts, r6)
            IN Return(InstExit(InstVerify(r7)), Rest(wire, instructions_len))
    IN
    IF instructions_len % OFP11_INSTRUCTION_ALIGN # 0
    THEN Return(InstExit(R("OFPERR_OFPBIC_BAD_LEN", cleared)), wire)
    ELSE IF ~CanPull(wire, instructions_len)
    THEN Return(InstExit(R("OFPERR_OFPBIC_BAD_LEN", cleared)), wire)
    ELSE Steps(decode_openflow11_instructions(
                   wire, instructions_len \div OFP11_INSTRUCTION_ALIGN))

ofpacts_pull_openflow11_instructions(c, wire, instructions_len, buf) ==
    LET cleared == ofpbuf_clear(buf)
        Return(x, rest) == P(x.error, rest, x.out)
        Steps(d) ==
            LET r0 == R(d.error, cleared)
                r1 == InstMeter(c, wire, d.insts, r0)
                r2 == InstApply(c, wire, d.insts, r1)
                r3 == InstClear(c, wire, d.insts, r2)
                r4 == InstWriteActionsCentec(c, wire, d.insts, r3)
                r5 == InstWriteMetadata(c, wire, d.insts, r4)
                r6 == InstGotoTable(c, wire, d.insts, r5)
                r7 == InstWriteActions(c, wire, d.insts, r6)
            IN Return(InstExit(InstVerify(r7)), Rest(wire, instructions_len))
    IN
    IF instructions_len % OFP11_INSTRUCTION_ALIGN # 0
    THEN Return(InstExit(R("OFPERR_OFPBIC_BAD_LEN", cleared)), wire)
    ELSE IF ~CanPull(wire, instructions_len)
    THEN Return(InstExit(R("OFPERR_OFPBIC_BAD_LEN", cleared)), wire)
    ELSE Steps(decode_openflow11_instructions(
                   wire, instructions_len \div OFP11_INSTRUCTION_ALIGN))

(***************************************************************************)
(* Checking ofpacts against a flow: ofpact_check__ and ofpacts_check.  A   *)
(* struct flow is its dl_type, two bytes in network order.                 *)
(***************************************************************************)
\* The field registry (meta-flow.c): the prerequisites of a field hold in
\* the flow.  NXM_NX_REG0 has none, NXM_OF_IP_SRC needs an IPv4 dl_type,
\* OXM_OF_MPLS_LABEL and OXM_OF_MPLS_TC need an MPLS dl_type.
mf_are_prereqs_ok(field, flow) ==
    CASE field = <<0, 0, 14, 4>> -> flow.dl_type = <<8, 0>>
      [] field \in {<<128, 0, 68, 4>>, <<128, 0, 70, 1>>} ->
           eth_type_mpls(Ntohs(flow.dl_type, 0))
      [] OTHER -> TRUE

\* The field that the check of a sub-codec (nx-match.c, multipath.c,
\* bundle.c, learn.c) tests: the dst of the wire struct that the record
\* keeps, the src of output_reg.
SubcodecField(a) ==
    CASE a.type = "OFPACT_OUTPUT_REG" -> SubSeq(a.f, 4, 7)
      [] a.type = "OFPACT_REG_MOVE" -> Bytes(a.f, 20, 4)
      [] a.type = "OFPACT_REG_LOAD" -> Bytes(a.f, 12, 4)
      [] a.type = "OFPACT_MULTIPATH" -> Bytes(a.f, 28, 4)
      [] a.type = "OFPACT_BUNDLE" -> Bytes(a.f, 24, 4)
      [] a.type = "OFPACT_LEARN" -> Bytes(a.f, 34, 4)

\* mf_check_src, bundle_check, nxm_reg_move_check, nxm_reg_load_check,
\* learn_check, multipath_check.
subcodec_check(a, flow) ==
    IF mf_are_prereqs_ok(SubcodecField(a), flow) THEN OK
    ELSE "OFPERR_OFPBAC_BAD_ARGUMENT"

\* [error, dl_type]: dl_type is *dl_type after the call.
ofpact_check__(c, a, flow, max_ports, dl_type) ==
    LET t == a.type
        Ret(error) == [error |-> error, dl_type |-> dl_type]
    IN
    CASE t = "OFPACT_OUTPUT" ->
           Ret(ofputil_check_output_port(a.f[1], max_ports))
      [] t = "OFPACT_ENQUEUE" ->
           IF a.f[1] >= max_ports /\ a.f[1] # OFPP_IN_PORT /\ a.f[1] # OFPP_LOCAL
           THEN Ret("OFPERR_OFPBAC_BAD_OUT_PORT")
           ELSE Ret(OK)
      [] t \in {"OFPACT_OUTPUT_REG", "OFPACT_BUNDLE", "OFPACT_REG_MOVE",
                "OFPACT_LEARN", "OFPACT_MULTIPATH"} ->
           Ret(subcodec_check(a, flow))
      [] t = "OFPACT_REG_LOAD" ->
           IF c /\ SubcodecField(a) \in {<<128, 0, 68, 4>>, <<128, 0, 70, 1>>}
           THEN Ret(OK)
           ELSE IF dl_type # flow.dl_type
           THEN Ret(subcodec_check(a, [flow EXCEPT !.dl_type = dl_type]))
           ELSE Ret(subcodec_check(a, flow))
      [] t \in {"OFPACT_PUSH_MPLS", "OFPACT_POP_MPLS"} ->
           [error |-> OK, dl_type |-> a.f]
      [] OTHER -> Ret(OK)

RECURSIVE ofpacts_check_loop(_, _, _, _, _, _)
ofpacts_check_loop(c, acts, i, flow, max_ports, dl_type) ==
    LET Body(r) ==
         IF r.error # OK THEN r.error
         ELSE ofpacts_check_loop(c, acts, i + 1, flow, max_ports, r.dl_type)
    IN IF i > Len(acts) THEN OK
       ELSE Body(ofpact_check__(c, acts[i], flow, max_ports, dl_type))

ofpacts_check(c, acts, flow, max_ports) ==
    ofpacts_check_loop(c, acts, 1, flow, max_ports, flow.dl_type)

(***************************************************************************)
(* Converting ofpacts to wire actions.  An encoder of one record gives the *)
(* bytes it appends, or aborts (NOT_REACHED).                              *)
(***************************************************************************)
E(bytes) == [abort |-> FALSE, bytes |-> bytes]
NOT_REACHED == [abort |-> TRUE, bytes |-> <<>>]

\* s with the bytes v stored at 0-based offset o.
Store(s, o, v) ==
    [i \in 1..Len(s) |-> IF i > o /\ i <= o + Len(v) THEN v[i - o] ELSE s[i]]

\* ofputil_put_<ENUM>(): a zeroed wire struct of the table's size with type
\* and len set, and vendor and subtype for a Nicira action.
ofputil_put(table, code) ==
    LET Struct(e) == Htons(e.enum) \o Htons(e.size) \o Zeros(e.size - 4)
    IN Struct(EntryOf(table, code))

ofputil_put_NXAST(code) ==
    LET Struct(e) ==
            Htons(OFPAT_VENDOR) \o Htons(e.size) \o NX_VENDOR_ID \o Htons(e.enum)
                \o Zeros(e.size - 10)
    IN Struct(EntryOf(NXAST_ACTIONS(TRUE), code))

ofpact_output_reg_to_nxast(a) ==
    Store(Store(Store(ofputil_put_NXAST("OFPUTIL_NXAST_OUTPUT_REG"),
                      10, Htons(nxm_encode_ofs_nbits(a.f[1], a.f[2]))),
                12, SubSeq(a.f, 4, 7)),
          16, Htons(a.f[3]))

\* ofpact_resubmit_to_nxast without the test of compat: a table of 0xff
\* always selects the short form.
ofpact_resubmit_to_nxast_short(a) ==
    IF a.f[2] = 255
    THEN Store(ofputil_put_NXAST("OFPUTIL_NXAST_RESUBMIT"), 10, Htons(a.f[1]))
    ELSE Store(Store(ofputil_put_NXAST("OFPUTIL_NXAST_RESUBMIT_TABLE"),
                     12, <<a.f[2]>>),
               10, Htons(a.f[1]))

ofpact_resubmit_to_nxast(a) ==
    IF a.f[2] = 255 /\ a.compat # "OFPUTIL_NXAST_RESUBMIT_TABLE"
    THEN Store(ofputil_put_NXAST("OFPUTIL_NXAST_RESUBMIT"), 10, Htons(a.f[1]))
    ELSE Store(Store(ofputil_put_NXAST("OFPUTIL_NXAST_RESUBMIT_TABLE"),
                     12, <<a.f[2]>>),
               10, Htons(a.f[1]))

\* ofpact_set_tunnel_to_nxast without the test of compat: an id that fits
\* 32 bits always selects the short form.
ofpact_set_tunnel_to_nxast_narrow(a) ==
    IF a.f[1] = 0 /\ a.f[2] = 0
    THEN Store(ofputil_put_NXAST("OFPUTIL_NXAST_SET_TUNNEL"),
               12, Htonl(<<a.f[3], a.f[4]>>))
    ELSE Store(ofputil_put_NXAST("OFPUTIL_NXAST_SET_TUNNEL64"), 16, Htonll(a.f))

\* tun_id is the four 16-bit digits a.f; it fits 32 bits when the two high
\* digits are zero.
ofpact_set_tunnel_to_nxast(a) ==
    IF a.f[1] = 0 /\ a.f[2] = 0 /\ a.compat # "OFPUTIL_NXAST_SET_TUNNEL64"
    THEN Store(ofputil_put_NXAST("OFPUTIL_NXAST_SET_TUNNEL"),
               12, Htonl(<<a.f[3], a.f[4]>>))
    ELSE Store(ofputil_put_NXAST("OFPUTIL_NXAST_SET_TUNNEL64"), 16, Htonll(a.f))

ofpact_write_metadata_to_nxast(a) ==
    Store(ofputil_put_NXAST("OFPUTIL_NXAST_WRITE_METADATA"), 16, a.f)

\* The struct is put, its 6 note bytes are taken back, the payload is
\* appended and the whole is padded with zeros to a multiple of 8; len is
\* the number of bytes emitted.
ofpact_note_to_nxast(a) ==
    LET head == SubSeq(ofputil_put_NXAST("OFPUTIL_NXAST_NOTE"), 1, 10)
        body == head \o SubSeq(a.f, 2, 1 + a.f[1])
        remainder == Len(body) % OFP_ACTION_ALIGN
        padded == IF remainder # 0
                  THEN body \o Zeros(OFP_ACTION_ALIGN - remainder) ELSE body
    IN Store(padded, 2, Htons(Len(padded)))

ofpact_controller_to_nxast(a) ==
    Store(Store(Store(ofputil_put_NXAST("OFPUTIL_NXAST_CONTROLLER"),
                      10, Htons(a.f[1])),
                12, Htons(a.f[2])),
          14, <<a.f[3]>>)

RECURSIVE StoreIds(_, _, _)
\* ids[i] = htons(oc_ids->cnt_ids[i]) for i = k .. n_controllers - 1.
StoreIds(s, a, k) ==
    IF k >= a.f[1] THEN s
    ELSE StoreIds(Store(s, 16 + 2 * k, Htons(a.f[2 + k])), a, k + 1)

ofpact_dec_ttl_to_nxast(a) ==
    IF a.compat = "OFPUTIL_NXAST_DEC_TTL"
    THEN ofputil_put_NXAST("OFPUTIL_NXAST_DEC_TTL")
    ELSE LET nac == ofputil_put_NXAST("OFPUTIL_NXAST_DEC_TTL_CNT_IDS")
             ids_len == ROUND_UP(2 * a.f[1], OFP_ACTION_ALIGN)
             hdr == Store(Store(nac, 2, Htons(Ntohs(nac, 2) + ids_len)),
                          10, Htons(a.f[1]))
         IN StoreIds(hdr \o Zeros(ids_len), a, 0)

ofpact_fin_timeout_to_nxast(a) ==
    Store(Store(ofputil_put_NXAST("OFPUTIL_NXAST_FIN_TIMEOUT"), 10, Htons(a.f[1])),
          12, Htons(a.f[2]))

ofpact_to_nxast(a) ==
    LET t == a.type IN
    CASE t = "OFPACT_CONTROLLER" -> E(ofpact_controller_to_nxast(a))
      [] t = "OFPACT_OUTPUT_REG" -> E(ofpact_output_reg_to_nxast(a))
      [] t \in {"OFPACT_BUNDLE", "OFPACT_REG_MOVE", "OFPACT_REG_LOAD",
                "OFPACT_LEARN", "OFPACT_MULTIPATH"} -> E(a.f)
      [] t = "OFPACT_DEC_TTL" -> E(ofpact_dec_ttl_to_nxast(a))
      [] t = "OFPACT_SET_TUNNEL" -> E(ofpact_set_tunnel_to_nxast(a))
      [] t = "OFPACT_WRITE_METADATA" -> E(ofpact_write_metadata_to_nxast(a))
      [] t = "OFPACT_SET_QUEUE" ->
           E(Store(ofputil_put_NXAST("OFPUTIL_NXAST_SET_QUEUE"), 12, Htonl(a.f)))
      [] t = "OFPACT_POP_QUEUE" -> E(ofputil_put_NXAST("OFPUTIL_NXAST_POP_QUEUE"))
      [] t = "OFPACT_FIN_TIMEOUT" -> E(ofpact_fin_timeout_to_nxast(a))
      [] t = "OFPACT_RESUBMIT" -> E(ofpact_resubmit_to_nxast(a))
      [] t = "OFPACT_NOTE" -> E(ofpact_note_to_nxast(a))
      [] t = "OFPACT_EXIT" -> E(ofputil_put_NXAST("OFPUTIL_NXAST_EXIT"))
      [] t = "OFPACT_PUSH_MPLS" ->
           E(Store(ofputil_put_NXAST("OFPUTIL_NXAST_PUSH_MPLS"), 10, a.f))
      [] t = "OFPACT_POP_MPLS" ->
           E(Store(ofputil_put_NXAST("OFPUTIL_NXAST_POP_MPLS"), 10, a.f))
      [] t = "OFPACT_PUSH_L2" -> E(ofputil_put_NXAST("OFPUTIL_NXAST_PUSH_L2"))
      [] t = "OFPACT_POP_L2" -> E(ofputil_put_NXAST("OFPUTIL_NXAST_POP_L2"))
      [] OTHER -> NOT_REACHED

\* The kinds that ofpact_to_openflow10 hands to ofpact_to_nxast.
NxastKinds10 ==
    {"OFPACT_CONTROLLER", "OFPACT_OUTPUT_REG", "OFPACT_BUNDLE",
     "OFPACT_REG_MOVE", "OFPACT_REG_LOAD", "OFPACT_DEC_TTL",
     "OFPACT_SET_TUNNEL", "OFPACT_WRITE_METADATA", "OFPACT_SET_QUEUE",
     "OFPACT_POP_QUEUE", "OFPACT_FIN_TIMEOUT", "OFPACT_RESUBMIT",
     "OFPACT_LEARN", "OFPACT_MULTIPATH", "OFPACT_NOTE", "OFPACT_EXIT",
     "OFPACT_PUSH_MPLS", "OFPACT_POP_MPLS", "OFPACT_PUSH_L2", "OFPACT_POP_L2"}

Put10(code) == ofputil_put(OFPAT10_ACTIONS, code)

ofpact_to_openflow10(c, a) ==
    LET t == a.type IN
    CASE t = "OFPACT_OUTPUT" ->
           E(Store(Store(Put10("OFPUTIL_OFPAT10_OUTPUT"), 4, Htons(a.f[1])),
                   6, Htons(a.f[2])))
      [] t = "OFPACT_ENQUEUE" ->
           E(Store(Store(Put10("OFPUTIL_OFPAT10_ENQUEUE"), 4, Htons(a.f[1])),
                   12, Htonl(<<a.f[2], a.f[3]>>)))
      [] t = "OFPACT_SET_VLAN_VID" ->
           E(Store(Put10("OFPUTIL_OFPAT10_SET_VLAN_VID"), 4, Htons(a.f[1])))
      [] t = "OFPACT_SET_VLAN_PCP" ->
           E(Store(Put10("OFPUTIL_OFPAT10_SET_VLAN_PCP"), 4, a.f))
      [] t = "OFPACT_STRIP_VLAN" -> E(Put10("OFPUTIL_OFPAT10_STRIP_VLAN"))
      [] t = "OFPACT_SET_ETH_SRC" ->
           E(Store(Put10("OFPUTIL_OFPAT10_SET_DL_SRC"), 4, a.f))
      [] t = "OFPACT_SET_ETH_DST" ->
           E(Store(Put10("OFPUTIL_OFPAT10_SET_DL_DST"), 4, a.f))
      [] t = "OFPACT_SET_IPV4_SRC" ->
           E(Store(Put10("OFPUTIL_OFPAT10_SET_NW_SRC"), 4, a.f))
      [] t = "OFPACT_SET_IPV4_DST" ->
           E(Store(Put10("OFPUTIL_OFPAT10_SET_NW_DST"), 4, a.f))
      [] t = "OFPACT_SET_IPV4_DSCP" ->
           E(Store(Put10("OFPUTIL_OFPAT10_SET_NW_TOS"), 4, a.f))
      [] t = "OFPACT_SET_L4_SRC_PORT" ->
           E(Store(Put10("OFPUTIL_OFPAT10_SET_TP_SRC"), 4, Htons(a.f[1])))
      [] t = "OFPACT_SET_L4_DST_PORT" ->
           E(Store(Put10("OFPUTIL_OFPAT10_SET_TP_DST"), 4, Htons(a.f[1])))
      [] t \in {"OFPACT_PUSH_VLAN", "OFPACT_CLEAR_ACTIONS", "OFPACT_GOTO_TABLE"} ->
           E(<<>>)
      [] t \in {"OFPACT_METER", "OFPACT_SET_MPLS_TTL", "OFPACT_GROUP"} -> E(<<>>)
      [] t \in NxastKinds10 -> ofpact_to_nxast(a)

\* ofpacts_put_openflow10: OFPACT_FOR_EACH over the list, appending to w.
RECURSIVE ofpacts_put_openflow10_loop(_, _, _, _)
ofpacts_put_openflow10_loop(c, acts, i, w) ==
    LET Body(e) ==
         IF e.abort THEN [abort |-> TRUE, openflow |-> w]
         ELSE ofpacts_put_openflow10_loop(c, acts, i + 1, w \o e.bytes)
    IN
    IF i > Len(acts) THEN [abort |-> FALSE, openflow |-> w]
    ELSE Body(ofpact_to_openflow10(c, acts[i]))

ofpacts_put_openflow10(c, acts, w) == ofpacts_put_openflow10_loop(c, acts, 1, w)
(***************************************************************************)
(* Converting ofpacts to OpenFlow 1.1 actions and instructions.            *)
(***************************************************************************)
Put11(code) == ofputil_put(OFPAT11_ACTIONS(TRUE), code)

ofpact_output_to_openflow11(a) ==
    Store(Store(Put11("OFPUTIL_OFPAT11_OUTPUT"), 4, ofputil_port_to_ofp11(a.f[1])),
          8, Htons(a.f[2]))

\* !compat is compat == OFPUTIL_ACTION_INVALID, the enum's value 0.
ofpact_dec_ttl_to_openflow11(a) ==
    IF a.f[1] = 1 /\ a.f[2] = 0
       /\ (a.compat = INVALID \/ a.compat = "OFPUTIL_OFPAT11_DEC_NW_TTL")
    THEN Put11("OFPUTIL_OFPAT11_DEC_NW_TTL")
    ELSE ofpact_dec_ttl_to_nxast(a)

\* The kinds that ofpact_to_openflow11 hands to ofpact_to_nxast.
NxastKinds11 ==
    {"OFPACT_CONTROLLER", "OFPACT_OUTPUT_REG", "OFPACT_BUNDLE",
     "OFPACT_REG_MOVE", "OFPACT_REG_LOAD", "OFPACT_SET_TUNNEL",
     "OFPACT_POP_QUEUE", "OFPACT_FIN_TIMEOUT", "OFPACT_RESUBMIT",
     "OFPACT_LEARN", "OFPACT_MULTIPATH", "OFPACT_NOTE", "OFPACT_EXIT",
     "OFPACT_PUSH_L2", "OFPACT_POP_L2"}

ofpact_to_openflow11(c, a) ==
    LET t == a.type IN
    CASE t = "OFPACT_OUTPUT" -> E(ofpact_output_to_openflow11(a))
      [] t = "OFPACT_ENQUEUE" -> E(<<>>)
      [] t = "OFPACT_SET_VLAN_VID" ->
           E(Store(Put11("OFPUTIL_OFPAT11_SET_VLAN_VID"), 4, Htons(a.f[1])))
      [] t = "OFPACT_SET_VLAN_PCP" ->
           E(Store(Put11("OFPUTIL_OFPAT11_SET_VLAN_PCP"), 4, a.f))
      [] t = "OFPACT_STRIP_VLAN" -> E(Put11("OFPUTIL_OFPAT11_POP_VLAN"))
      [] t = "OFPACT_PUSH_VLAN" ->
           E(Store(Put11("OFPUTIL_OFPAT11_PUSH_VLAN"), 4,
                   IF c THEN a.f ELSE Htons(ETH_TYPE_VLAN_8021Q)))
      [] t = "OFPACT_SET_QUEUE" ->
           E(Store(Put11("OFPUTIL_OFPAT11_SET_QUEUE"), 4, Htonl(a.f)))
      [] t = "OFPACT_SET_ETH_SRC" ->
           E(Store(Put11("OFPUTIL_OFPAT11_SET_DL_SRC"), 4, a.f))
      [] t = "OFPACT_SET_ETH_DST" ->
           E(Store(Put11("OFPUTIL_OFPAT11_SET_DL_DST"), 4, a.f))
      [] t = "OFPACT_SET_IPV4_SRC" ->
           E(Store(Put11("OFPUTIL_OFPAT11_SET_NW_SRC"), 4, a.f))
      [] t = "OFPACT_SET_IPV4_DST" ->
           E(Store(Put11("OFPUTIL_OFPAT11_SET_NW_DST"), 4, a.f))
      [] t = "OFPACT_SET_IPV4_DSCP" ->
           E(Store(Put11("OFPUTIL_OFPAT11_SET_NW_TOS"), 4, a.f))
      [] t = "OFPACT_SET_L4_SRC_PORT" ->
           E(Store(Put11("OFPUTIL_OFPAT11_SET_TP_SRC"), 4, Htons(a.f[1])))
      [] t = "OFPACT_SET_L4_DST_PORT" ->
           E(Store(Put11("OFPUTIL_OFPAT11_SET_TP_DST"), 4, Htons(a.f[1])))
      [] t = "OFPACT_DEC_TTL" -> E(ofpact_dec_ttl_to_openflow11(a))
      [] t = "OFPACT_WRITE_METADATA" -> E(<<>>)
      [] t = "OFPACT_PUSH_MPLS" ->
           E(Store(Put11("OFPUTIL_OFPAT11_PUSH_MPLS"), 4, a.f))
      [] t = "OFPACT_POP_MPLS" ->
           E(Store(Put11("OFPUTIL_OFPAT11_POP_MPLS"), 4, a.f))
      [] t \in {"OFPACT_CLEAR_ACTIONS", "OFPACT_GOTO_TABLE"} -> NOT_REACHED
      [] t = "OFPACT_METER" -> NOT_REACHED
      [] t = "OFPACT_GROUP" ->
           E(Store(Put11("OFPUTIL_OFPAT11_GROUP"), 4, Htonl(a.f)))
      [] t = "OFPACT_SET_MPLS_TTL" ->
           E(Store(Put11("OFPUTIL_OFPAT11_SET_MPLS_TTL"), 4, a.f))
      [] t \in NxastKinds11 -> ofpact_to_nxast(a)

RECURSIVE ofpacts_put_openflow11_actions_loop(_, _, _, _)
ofpacts_put_openflow11_actions_loop(c, acts, i, w) ==
    LET Body(e) ==
         IF e.abort THEN [abort |-> TRUE, openflow |-> w]
         ELSE ofpacts_put_openflow11_actions_loop(c, acts, i + 1, w \o e.bytes)
    IN
    IF i > Len(acts) THEN [abort |-> FALSE, openflow |-> w]
    ELSE Body(ofpact_to_openflow11(c, acts[i]))

\* Returns the number of bytes appended (openflow->size - start_size).
ofpacts_put_openflow11_actions(c, acts, w) ==
    LET Return(r) == [abort |-> r.abort, openflow |-> r.openflow,
                      ret |-> Len(r.openflow) - Len(w)]
    IN Return(ofpacts_put_openflow11_actions_loop(c, acts, 1, w))

\* ofp-actions.h: the kinds that stand for an instruction of their own.
ofpact_is_instruction(a) ==
    a.type \in {"OFPACT_CLEAR_ACTIONS", "OFPACT_WRITE_METADATA",
                "OFPACT_GOTO_TABLE"}

\* instruction_put_<ENUM>(): a zeroed instruction of the table's size with
\* type and len set.
instruction_put(type) ==
    LET Struct(e) == Htons(e.enum) \o Htons(e.size) \o Zeros(e.size - 4)
    IN Struct(EntryOf(OVS_INSTRUCTIONS, type))

\* Update the instruction's length or, if it is empty, delete it.
\* An empty instruction deleted together with the Ofp11InstructionSize bytes
\* before it.
ofpacts_update_instruction_actions_greedy(w, ofs) ==
    IF Len(w) > ofs + Ofp11InstructionSize
    THEN Store(w, ofs + 2, Htons(Len(w) - ofs))
    ELSE SubSeq(w, 1, IF ofs >= Ofp11InstructionSize
                      THEN ofs - Ofp11InstructionSize ELSE 0)

ofpacts_update_instruction_actions(w, ofs) ==
    IF Len(w) > ofs + Ofp11InstructionSize
    THEN Store(w, ofs + 2, Htons(Len(w) - ofs))
    ELSE SubSeq(w, 1, ofs)

\* The inner loop leaving after its first record.
ApplyRun_one(c, acts, i, w) ==
    LET Body(e) ==
         IF e.abort THEN [abort |-> TRUE, openflow |-> w, processed |-> i]
         ELSE [abort |-> FALSE, openflow |-> w \o e.bytes, processed |-> i]
    IN
    IF i > Len(acts) \/ ofpact_is_instruction(acts[i])
    THEN [abort |-> FALSE, openflow |-> w, processed |-> i - 1]
    ELSE Body(ofpact_to_openflow11(c, acts[i]))

RECURSIVE ApplyRun(_, _, _, _)
\* The inner loop of the apply-actions branch, from record i: the records
\* up to the first instruction kind are written; gives the buffer and the
\* index of the last record processed.
ApplyRun(c, acts, i, w) ==
    LET Body(e) ==
         IF e.abort THEN [abort |-> TRUE, openflow |-> w, processed |-> i]
         ELSE ApplyRun(c, acts, i + 1, w \o e.bytes)
    IN
    IF i > Len(acts) \/ ofpact_is_instruction(acts[i])
    THEN [abort |-> FALSE, openflow |-> w, processed |-> i - 1]
    ELSE Body(ofpact_to_openflow11(c, acts[i]))

RECURSIVE ofpacts_put_openflow11_instructions_loop(_, _, _, _)
ofpacts_put_openflow11_instructions_loop(c, acts, i, w) ==
    IF i > Len(acts) THEN [abort |-> FALSE, openflow |-> w]
    ELSE LET a == acts[i] IN
         IF a.type = "OFPACT_CLEAR_ACTIONS"
         THEN ofpacts_put_openflow11_instructions_loop(c, acts, i + 1,
                  w \o instruction_put(OVSINST_CLEAR))
         ELSE IF c /\ a.type = "OFPACT_METER"
         THEN ofpacts_put_openflow11_instructions_loop(c, acts, i + 1,
                  w \o Store(instruction_put(OVSINST_METER), 4, Htonl(a.f)))
         ELSE IF a.type = "OFPACT_GOTO_TABLE"
         THEN ofpacts_put_openflow11_instructions_loop(c, acts, i + 1,
                  w \o Store(instruction_put(OVSINST_GOTO_TABLE), 4, a.f))
         ELSE IF a.type = "OFPACT_WRITE_METADATA"
         THEN ofpacts_put_openflow11_instructions_loop(c, acts, i + 1,
                  w \o Store(instruction_put(OVSINST_WRITE_METADATA), 8, a.f))
         ELSE LET ofs == Len(w)
                  Apply(run) ==
                     IF run.abort THEN [abort |-> TRUE, openflow |-> run.openflow]
                     ELSE ofpacts_put_openflow11_instructions_loop(
                              c, acts, run.processed + 1,
                              ofpacts_update_instruction_actions(run.openflow, ofs))
              IN Apply(ApplyRun(c, acts, i, w \o instruction_put(OVSINST_APPLY)))

ofpacts_put_openflow11_instructions(c, acts, w) ==
    ofpacts_put_openflow11_instructions_loop(c, acts, 1, w)
(***************************************************************************)
(* Inputs.  Wire messages are concatenations of the chunks below: one      *)
(* action or instruction each, well-formed or malformed.                   *)
(***************************************************************************)
\* A wire action: type, len, then the body.
Act(type, len, body) == Htons(type) \o Htons(len) \o body
\* A Nicira extension action: the body follows the 10-byte header.
NxAct(subtype, len, body) ==
    Htons(OFPAT_VENDOR) \o Htons(len) \o NX_VENDOR_ID \o Htons(subtype) \o body
\* An instruction: type, len, then the body.
Inst(type, len, body) == Htons(type) \o Htons(len) \o body

\* OpenFlow 1.0 and Nicira chunks that the decoder accepts and whose
\* padding is all zero.
Good10 ==
    { Act(0, 8, <<0, 1, 0, 0>>),                        \* output:1
      Act(0, 8, <<255, 253, 0, 128>>),                  \* output:CONTROLLER
      Act(0, 8, <<0, 1, 255, 255>>),                    \* output:1, max_len 0xffff
      Act(11, 16, <<0, 1>> \o Zeros(6) \o <<0, 0, 0, 7>>), \* enqueue:1:7
      Act(11, 16, <<254, 255>> \o Zeros(6) \o <<0, 0, 0, 7>>), \* enqueue:0xfeff:7
      Act(11, 16, <<255, 248>> \o Zeros(6) \o <<0, 0, 0, 7>>), \* enqueue:IN_PORT:7
      Act(11, 16, <<255, 254>> \o Zeros(6) \o <<0, 0, 0, 7>>), \* enqueue:LOCAL:7
      Act(1, 8, <<0, 5, 0, 0>>),                        \* set_vlan_vid
      Act(2, 8, <<3, 0, 0, 0>>),                        \* set_vlan_pcp
      Act(3, 8, Zeros(4)),                              \* strip_vlan
      Act(4, 16, <<1, 2, 3, 4, 5, 6>> \o Zeros(6)),     \* set_dl_src
      Act(5, 16, <<6, 5, 4, 3, 2, 1>> \o Zeros(6)),     \* set_dl_dst
      Act(6, 8, <<10, 0, 0, 1>>),                       \* set_nw_src
      Act(7, 8, <<10, 0, 0, 2>>),                       \* set_nw_dst
      Act(8, 8, <<32, 0, 0, 0>>),                       \* set_nw_tos
      Act(9, 8, <<0, 80, 0, 0>>),                       \* set_tp_src
      Act(10, 8, <<1, 187, 0, 0>>),                     \* set_tp_dst
      NxAct(1, 16, <<0, 1>> \o Zeros(4)),               \* resubmit
      NxAct(14, 16, <<0, 1, 2>> \o Zeros(3)),           \* resubmit_table 2
      NxAct(14, 16, <<0, 1, 255>> \o Zeros(3)),         \* resubmit_table 255
      NxAct(2, 16, Zeros(2) \o <<0, 0, 0, 5>>),         \* set_tunnel
      NxAct(9, 24, Zeros(6) \o Zeros(4) \o <<0, 0, 0, 5>>),   \* set_tunnel64
      NxAct(9, 24, Zeros(6) \o <<0, 0, 0, 1, 0, 0, 0, 5>>),   \* set_tunnel64
      NxAct(22, 32, Zeros(6) \o <<1, 2, 3, 4, 5, 6, 7, 8>>
                    \o <<255, 255, 255, 255, 255, 255, 255, 255>>),
      NxAct(8, 16, <<1, 2, 3, 4, 5, 6>>),               \* note, 6 bytes
      NxAct(8, 24, <<1, 2, 3, 4, 5, 6, 7, 8, 9, 0, 0, 0, 0, 0>>),
      NxAct(18, 16, Zeros(6)),                          \* dec_ttl
      NxAct(21, 24, <<0, 1>> \o Zeros(4) \o <<0, 0>> \o Zeros(6)),
      NxAct(21, 24, <<0, 2>> \o Zeros(4) \o <<0, 3, 0, 4>> \o Zeros(4)),
      NxAct(19, 16, <<0, 10, 0, 20>> \o Zeros(2)),      \* fin_timeout
      NxAct(20, 16, <<0, 128, 0, 1, 1, 0>>),            \* controller
      NxAct(15, 24, <<0, 15>> \o NXM_NX_REG0 \o <<0, 64>> \o Zeros(6)),
      NxAct(17, 16, Zeros(6)),                          \* exit
      NxAct(5, 16, Zeros(6)),                           \* pop_queue
      NxAct(4, 16, Zeros(2) \o <<0, 0, 0, 9>>),         \* set_queue
      NxAct(23, 16, <<136, 71>> \o Zeros(4)),           \* push_mpls 0x8847
      NxAct(24, 16, <<8, 0>> \o Zeros(4)),              \* pop_mpls 0x0800
      NxAct(25, 16, Zeros(6)) }                         \* push_l2

\* Accepted, but padding bytes the decoder never looks at are not zero, or
\* the id array of dec_ttl_cnt_ids is longer than its ids need.
Sloppy10 ==
    { Act(3, 8, <<0, 0, 0, 9>>),
      Act(11, 16, <<0, 1>> \o <<0, 0, 0, 0, 0, 9>> \o <<0, 0, 0, 7>>),
      NxAct(2, 16, <<0, 9>> \o <<0, 0, 0, 5>>),
      NxAct(20, 16, <<0, 128, 0, 1, 1, 9>>),
      NxAct(21, 32, <<0, 1>> \o Zeros(4) \o <<0, 0>> \o Zeros(14)) }

\* Reserved bytes that the decoder does look at are not zero.
NonZero10 ==
    { NxAct(14, 16, <<0, 1, 2>> \o <<1, 0, 0>>),
      NxAct(15, 24, <<0, 15>> \o NXM_NX_REG0 \o <<0, 64>> \o <<0, 0, 0, 0, 0, 1>>),
      NxAct(22, 32, <<0, 0, 1, 0, 0, 0>> \o Zeros(16)),
      NxAct(21, 24, <<0, 1>> \o <<0, 0, 0, 1>> \o Zeros(8)) }

\* Refused: unknown type, wrong length for the type, bad vendor, bad
\* argument, a length that does not fit the walk.
Bad10 ==
    { Act(99, 8, Zeros(4)),
      Act(0, 16, <<0, 1, 0, 0>> \o Zeros(8)),
      Act(0, 0, <<0, 1, 0, 0>>),
      Act(0, 4, <<0, 1, 0, 0>>),
      Act(0, 12, <<0, 1, 0, 0>> \o Zeros(8)),
      Act(4, 16, <<1, 2, 3, 4>>),
      Act(0, 8, <<255, 1, 0, 0>>),
      Act(11, 16, <<255, 0>> \o Zeros(6) \o <<0, 0, 0, 7>>),   \* enqueue:OFPP_MAX
      Act(11, 16, <<255, 253>> \o Zeros(6) \o <<0, 0, 0, 7>>), \* enqueue:CONTROLLER
      Act(1, 8, <<31, 255, 0, 0>>),
      Act(8, 8, <<1, 0, 0, 0>>),
      Htons(OFPAT_VENDOR) \o Htons(16) \o <<0, 0, 0, 1>> \o Htons(1) \o Zeros(6),
      NxAct(3, 16, Zeros(6)),
      NxAct(21, 16, <<0, 5>> \o Zeros(4)),
      NxAct(23, 16, <<8, 0>> \o Zeros(4)) }

\* OpenFlow 1.1 action chunks.
Good11 ==
    { Act(0, 16, <<0, 0, 0, 1, 0, 0>> \o Zeros(6)),     \* output:1
      Act(0, 16, <<255, 255, 255, 253, 0, 128>> \o Zeros(6)),
      Act(1, 8, <<0, 5, 0, 0>>),                        \* set_vlan_vid
      Act(2, 8, <<3, 0, 0, 0>>),                        \* set_vlan_pcp
      Act(3, 16, <<1, 2, 3, 4, 5, 6>> \o Zeros(6)),     \* set_dl_src
      Act(5, 8, <<10, 0, 0, 1>>),                       \* set_nw_src
      Act(7, 8, <<32, 0, 0, 0>>),                       \* set_nw_tos
      Act(9, 8, <<0, 80, 0, 0>>),                       \* set_tp_src
      Act(17, 8, <<129, 0, 0, 0>>),                     \* push_vlan 0x8100
      Act(18, 8, Zeros(4)),                             \* pop_vlan
      Act(19, 8, <<136, 71, 0, 0>>),                    \* push_mpls 0x8847
      Act(20, 8, <<8, 0, 0, 0>>),                       \* pop_mpls 0x0800
      Act(21, 8, <<0, 0, 0, 9>>),                       \* set_queue
      Act(24, 8, Zeros(4)),                             \* dec_nw_ttl
      Act(22, 8, <<0, 0, 0, 3>>),                       \* group
      Act(15, 8, <<64, 0, 0, 0>>) }                     \* set_mpls_ttl

Bad11 ==
    { Act(17, 8, <<136, 168, 0, 0>>),                   \* push_vlan 0x88a8
      Act(0, 16, <<0, 1, 0, 1, 0, 0>> \o Zeros(6)),     \* output, bad port
      Act(0, 8, <<0, 0, 0, 1>>),
      Act(23, 8, Zeros(4)) }
\* Action lists that an apply-actions or write-actions instruction wraps.
Inner11 ==
    { <<>>,
      Act(0, 16, <<0, 0, 0, 1, 0, 0>> \o Zeros(6)),
      Act(0, 16, <<0, 0, 0, 1, 0, 0>> \o Zeros(6)) \o Act(18, 8, Zeros(4)),
      Act(17, 8, <<129, 0, 0, 0>>),
      NxAct(22, 32, Zeros(6) \o <<1, 2, 3, 4, 5, 6, 7, 8>>
                    \o <<255, 255, 255, 255, 255, 255, 255, 255>>),
      Act(23, 8, Zeros(4)) }

apply_actions(inner) == Inst(4, 8 + Len(inner), Zeros(4) \o inner)
write_actions(inner) == Inst(3, 8 + Len(inner), Zeros(4) \o inner)
clear_actions == Inst(5, 8, Zeros(4))
write_metadata == Inst(2, 24, Zeros(4) \o <<1, 2, 3, 4, 5, 6, 7, 8>>
                                       \o <<255, 255, 255, 255, 255, 255, 255, 255>>)
goto_table == Inst(1, 8, <<5, 0, 0, 0>>)
meter == Inst(6, 8, <<0, 0, 0, 3>>)

GoodInst ==
    { apply_actions(inner) : inner \in Inner11 }
        \cup { write_actions(Act(18, 8, Zeros(4))),
               clear_actions, write_metadata, goto_table, meter }

BadInst ==
    { Inst(OFPIT11_EXPERIMENTER, 8, Zeros(4)),
      Inst(9, 8, Zeros(4)),
      Inst(1, 16, <<5, 0, 0, 0>> \o Zeros(8)),
      Inst(5, 12, Zeros(12)),
      Inst(4, 24, Zeros(4)) }

\* The chunks that messages of two chunks are made of.
Core10 ==
    { Act(0, 8, <<0, 1, 0, 0>>),
      Act(3, 8, Zeros(4)),
      NxAct(22, 32, Zeros(6) \o <<1, 2, 3, 4, 5, 6, 7, 8>>
                    \o <<255, 255, 255, 255, 255, 255, 255, 255>>),
      NxAct(8, 16, <<1, 2, 3, 4, 5, 6>>),
      NxAct(21, 24, <<0, 2>> \o Zeros(4) \o <<0, 3, 0, 4>> \o Zeros(4)),
      NxAct(14, 16, <<0, 1, 2>> \o <<1, 0, 0>>),
      Act(99, 8, Zeros(4)),
      Act(0, 12, <<0, 1, 0, 0>> \o Zeros(8)),
      Act(4, 16, <<1, 2, 3, 4>>) }

Core11 ==
    { Act(0, 16, <<0, 0, 0, 1, 0, 0>> \o Zeros(6)),
      Act(17, 8, <<129, 0, 0, 0>>),
      Act(18, 8, Zeros(4)),
      Act(24, 8, Zeros(4)),
      NxAct(22, 32, Zeros(6) \o <<1, 2, 3, 4, 5, 6, 7, 8>>
                    \o <<255, 255, 255, 255, 255, 255, 255, 255>>),
      Act(23, 8, Zeros(4)),
      Act(0, 8, <<0, 0, 0, 1>>) }

CoreInst ==
    { apply_actions(Act(0, 16, <<0, 0, 0, 1, 0, 0>> \o Zeros(6))),
      write_actions(Act(18, 8, Zeros(4))),
      clear_actions, write_metadata, goto_table, meter,
      Inst(OFPIT11_EXPERIMENTER, 8, Zeros(4)),
      Inst(1, 16, <<5, 0, 0, 0>> \o Zeros(8)) }

RECURSIVE Seqs(_, _)
\* The concatenations of n chunks of the set S.
Seqs(S, n) ==
    IF n = 0 THEN { <<>> }
    ELSE { x \o y : x \in Seqs(S, n - 1), y \in S }

\* Instruction lists of more than MaxChunks instructions: each kind that
\* the framer materialises, in and out of the order it emits them.
Scenarios ==
    { apply_actions(Act(0, 16, <<0, 0, 0, 1, 0, 0>> \o Zeros(6)))
          \o goto_table \o clear_actions,
      apply_actions(Act(0, 16, <<0, 0, 0, 1, 0, 0>> \o Zeros(6)))
          \o clear_actions \o write_metadata \o goto_table,
      goto_table \o write_metadata \o clear_actions }

WireInputs ==
    Good10 \cup Sloppy10 \cup NonZero10 \cup Bad10 \cup Good11 \cup Bad11
        \cup GoodInst \cup BadInst \cup Scenarios
        \cup UNION { Seqs(Core10, n) \cup Seqs(Core11, n) \cup Seqs(CoreInst, n)
                     : n \in 0..MaxChunks }

(***************************************************************************)
(* Internal lists that a caller builds with ofpact_put_<ENUM>() and        *)
(* ofpact_pad(), as the flow parser does.                                  *)
(***************************************************************************)
Rec(type, compat, f) == [type |-> type, compat |-> compat, f |-> f]

RECURSIVE AddIds(_, _, _)
AddIds(buf, ids, i) ==
    IF i > Len(ids) THEN buf ELSE AddIds(ofpbuf_put_id(buf, ids[i]), ids, i + 1)

\* One record appended: note takes its payload, dec_ttl its ids and then
\* ofpact_update_len.
RecPut(buf, d) ==
    IF d.type = "OFPACT_NOTE"
    THEN SetCompat(SetFields(ofpact_put(buf, d.type, OfpactNoteDataOffset + d.f[1]),
                             d.f), d.compat)
    ELSE IF d.type = "OFPACT_DEC_TTL"
    THEN ofpact_update_len(
             AddIds(SetCompat(PutRecord(buf, d.type, <<d.f[1]>>), d.compat),
                    SubSeq(d.f, 2, Len(d.f)), 1))
    ELSE SetCompat(PutRecord(buf, d.type, d.f), d.compat)

RECURSIVE BuildList(_, _, _)
BuildList(buf, ds, i) ==
    IF i > Len(ds) THEN ofpact_pad(buf) ELSE BuildList(RecPut(buf, ds[i]), ds, i + 1)

CoreRecs ==
    { Rec("OFPACT_OUTPUT", INVALID, <<1, 0>>),
      Rec("OFPACT_ENQUEUE", INVALID, <<1, 0, 7>>),
      Rec("OFPACT_STRIP_VLAN", INVALID, <<>>),
      Rec("OFPACT_RESUBMIT", INVALID, <<1, 255>>),
      Rec("OFPACT_DEC_TTL", INVALID, <<1, 0>>),
      Rec("OFPACT_CLEAR_ACTIONS", INVALID, <<>>),
      Rec("OFPACT_WRITE_METADATA", INVALID,
          <<1, 2, 3, 4, 5, 6, 7, 8, 255, 255, 255, 255, 255, 255, 255, 255>>),
      Rec("OFPACT_GOTO_TABLE", INVALID, <<5>>) }

MoreRecs ==
    { Rec("OFPACT_SET_VLAN_VID", INVALID, <<5>>),
      Rec("OFPACT_PUSH_VLAN", INVALID, <<129, 0>>),
      Rec("OFPACT_SET_QUEUE", INVALID, <<0, 9>>),
      Rec("OFPACT_RESUBMIT", "OFPUTIL_NXAST_RESUBMIT_TABLE", <<1, 255>>),
      Rec("OFPACT_RESUBMIT", "OFPUTIL_NXAST_RESUBMIT", <<1, 255>>),
      Rec("OFPACT_SET_TUNNEL", INVALID, <<0, 0, 0, 5>>),
      Rec("OFPACT_SET_TUNNEL", "OFPUTIL_NXAST_SET_TUNNEL64", <<0, 0, 0, 5>>),
      Rec("OFPACT_SET_TUNNEL", INVALID, <<0, 1, 0, 0>>),   \* 0x1_0000_0000
      Rec("OFPACT_SET_TUNNEL", "OFPUTIL_NXAST_SET_TUNNEL", <<0, 0, 0, 7>>),
      Rec("OFPACT_SET_TUNNEL", "OFPUTIL_NXAST_SET_TUNNEL", <<0, 1, 0, 0>>),
      Rec("OFPACT_RESUBMIT", "OFPUTIL_NXAST_RESUBMIT", <<1, 2>>),
      Rec("OFPACT_DEC_TTL", "OFPUTIL_NXAST_DEC_TTL", <<2, 3, 4>>),
      Rec("OFPACT_DEC_TTL", "OFPUTIL_NXAST_DEC_TTL", <<1, 0>>),
      Rec("OFPACT_DEC_TTL", INVALID, <<2, 3, 4>>),
      Rec("OFPACT_NOTE", INVALID, <<6, 1, 2, 3, 4, 5, 6>>),
      Rec("OFPACT_NOTE", INVALID, <<3, 1, 2, 3>>),
      Rec("OFPACT_NOTE", INVALID, <<0>>),
      Rec("OFPACT_FIN_TIMEOUT", INVALID, <<10, 20>>),
      Rec("OFPACT_CONTROLLER", INVALID, <<128, 1, 1>>),
      Rec("OFPACT_EXIT", INVALID, <<>>),
      Rec("OFPACT_POP_QUEUE", INVALID, <<>>),
      Rec("OFPACT_PUSH_MPLS", INVALID, <<136, 71>>) }

\* Kinds that exist only when _OFP_CENTEC_ is defined.
CentecRecs ==
    { Rec("OFPACT_METER", INVALID, <<0, 3>>),
      Rec("OFPACT_GROUP", INVALID, <<0, 3>>),
      Rec("OFPACT_SET_MPLS_TTL", INVALID, <<64>>),
      Rec("OFPACT_PUSH_L2", INVALID, <<>>) }

RECURSIVE Lists(_, _)
Lists(S, n) ==
    IF n = 0 THEN { <<>> }
    ELSE { Append(x, y) : x \in Lists(S, n - 1), y \in S }

\* One record of each instruction category.
OrderRecs ==
    { r \in CoreRecs : r.type \in {"OFPACT_OUTPUT", "OFPACT_CLEAR_ACTIONS",
                                    "OFPACT_WRITE_METADATA", "OFPACT_GOTO_TABLE"} }

InternalInputs(c) ==
    { BuildList(EmptyBuf, ds, 1) :
        ds \in Lists(MoreRecs \cup (IF c THEN CentecRecs ELSE {}), 1)
               \cup UNION { Lists(CoreRecs, n) : n \in 0..MaxChunks }
               \cup UNION { Lists(OrderRecs, n) : n \in 0..MaxOrder } }
(***************************************************************************)
(* Formatting.  A struct ds is the sequence of the pieces appended to it:  *)
(* each ds_put_cstr, ds_put_char or ds_put_format call appends one piece,  *)
(* the text or format with the values it prints.  A format that ends in a  *)
(* comma is kept as its text and a "," piece, so that ds_chomp sees the    *)
(* last character.  The formatters of other files (ofputil_format_port,    *)
(* mf_format_subfield, bundle_format, learn_format, multipath_format,      *)
(* nxm_format_reg_move, nxm_format_reg_load) append one piece that names   *)
(* them.                                                                   *)
(***************************************************************************)
ds_put(s, fmt, args) == Append(s, [fmt |-> fmt, args |-> args])

ds_chomp(s, c) ==
    IF Len(s) > 0 /\ s[Len(s)].fmt = c THEN SubSeq(s, 1, Len(s) - 1) ELSE s

RECURSIVE print_note(_, _, _)
\* f = <<length, data...>>; i is the loop counter, 0 on entry.
print_note(f, i, s) ==
    LET s0 == IF i = 0 THEN ds_put(s, "note:", <<>>) ELSE s
        s1 == IF i # 0 THEN ds_put(s0, ".", <<>>) ELSE s0
    IN IF i >= f[1] THEN s0
       ELSE print_note(f, i + 1, ds_put(s1, "%02x", <<f[i + 2]>>))

RECURSIVE print_dec_ttl(_, _, _)
\* a.f = <<n_controllers, cnt_ids...>>; i is the loop counter, 0 on entry.
print_dec_ttl(a, i, s) ==
    LET s0 == IF i = 0 THEN ds_put(ds_put(s, "dec_ttl", <<>>), "(", <<>>) ELSE s
        s1 == IF i # 0 THEN ds_put(s0, ",", <<>>) ELSE s0
    IN IF a.compat # "OFPUTIL_NXAST_DEC_TTL_CNT_IDS"
       THEN ds_put(s, "dec_ttl", <<>>)
       ELSE IF i >= a.f[1] THEN ds_put(s0, ")", <<>>)
       ELSE print_dec_ttl(a, i + 1, ds_put(s1, "%u", <<a.f[i + 2]>>))

\* f = <<fin_idle_timeout, fin_hard_timeout>>.
print_fin_timeout(f, s) ==
    LET s0 == ds_put(s, "fin_timeout(", <<>>)
        s1 == IF f[1] # 0
              THEN ds_put(ds_put(s0, "idle_timeout=%u", <<f[1]>>), ",", <<>>)
              ELSE s0
        s2 == IF f[2] # 0
              THEN ds_put(ds_put(s1, "hard_timeout=%u", <<f[2]>>), ",", <<>>)
              ELSE s1
    IN ds_put(ds_chomp(s2, ","), ")", <<>>)

\* The switch of ofpact_format; c is _OFP_CENTEC_.  A type outside the
\* enum of the build has no case and appends nothing.
ofpact_format(c, a, s) ==
    LET t == a.type
        f == a.f
        \* OFPACT_CONTROLLER: f = <<max_len, controller_id, reason>>;
        \* OFPR_ACTION is 1 and UINT16_MAX is 65535.
        Controller ==
            IF f[3] = 1 /\ f[2] = 0
            THEN ds_put(s, "CONTROLLER:%u", <<f[1]>>)
            ELSE LET s0 == ds_put(s, "controller(", <<>>)
                     s1 == IF f[3] # 1
                           THEN ds_put(ds_put(s0, "reason=%s", <<f[3]>>),
                                       ",", <<>>)
                           ELSE s0
                     s2 == IF f[1] # 65535
                           THEN ds_put(ds_put(s1, "max_len=%u", <<f[1]>>),
                                       ",", <<>>)
                           ELSE s1
                     s3 == IF f[2] # 0
                           THEN ds_put(ds_put(s2, "id=%u", <<f[2]>>), ",", <<>>)
                           ELSE s2
                 IN ds_put(ds_chomp(s3, ","), ")", <<>>)
        \* OFPACT_RESUBMIT: f = <<in_port, table_id>>.
        Resubmit ==
            IF f[1] # OFPP_IN_PORT /\ f[2] = 255
            THEN ds_put(ds_put(s, "resubmit:", <<>>),
                        "ofputil_format_port", <<f[1]>>)
            ELSE LET s0 == ds_put(s, "resubmit(", <<>>)
                     s1 == IF f[1] # OFPP_IN_PORT
                           THEN ds_put(s0, "ofputil_format_port", <<f[1]>>)
                           ELSE s0
                     s2 == ds_put(s1, ",", <<>>)
                     s3 == IF f[2] # 255 THEN ds_put(s2, "%u", <<f[2]>>)
                           ELSE s2
                 IN ds_put(s3, ")", <<>>)
    IN CASE t = "OFPACT_OUTPUT" ->
              IF f[1] < OFPP_MAX THEN ds_put(s, "output:%u", <<f[1]>>)
              ELSE IF f[1] = OFPP_CONTROLLER
              THEN ds_put(ds_put(s, "ofputil_format_port", <<f[1]>>),
                          ":%u", <<f[2]>>)
              ELSE ds_put(s, "ofputil_format_port", <<f[1]>>)
         [] t = "OFPACT_CONTROLLER" -> Controller
         [] t = "OFPACT_ENQUEUE" ->
              ds_put(ds_put(ds_put(s, "enqueue:", <<>>),
                            "ofputil_format_port", <<f[1]>>),
                     "q%u", <<f[2], f[3]>>)
         [] t = "OFPACT_OUTPUT_REG" ->
              ds_put(ds_put(s, "output:", <<>>), "mf_format_subfield", f)
         [] t = "OFPACT_BUNDLE" -> ds_put(s, "bundle_format", f)
         [] t = "OFPACT_SET_VLAN_VID" -> ds_put(s, "mod_vlan_vid:%u", f)
         [] t = "OFPACT_SET_VLAN_PCP" -> ds_put(s, "mod_vlan_pcp:%u", f)
         [] t = "OFPACT_STRIP_VLAN" -> ds_put(s, "strip_vlan", <<>>)
         [] t = "OFPACT_PUSH_VLAN" ->
              IF c THEN ds_put(s, "push_vlan:%#x", <<f[1] * 256 + f[2]>>)
              ELSE ds_put(s, "push_vlan:%#x", <<ETH_TYPE_VLAN_8021Q>>)
         [] t = "OFPACT_SET_ETH_SRC" -> ds_put(s, "mod_dl_src:ETH_ADDR_FMT", f)
         [] t = "OFPACT_SET_ETH_DST" -> ds_put(s, "mod_dl_dst:ETH_ADDR_FMT", f)
         [] t = "OFPACT_SET_IPV4_SRC" -> ds_put(s, "mod_nw_src:IP_FMT", f)
         [] t = "OFPACT_SET_IPV4_DST" -> ds_put(s, "mod_nw_dst:IP_FMT", f)
         [] t = "OFPACT_SET_IPV4_DSCP" -> ds_put(s, "mod_nw_tos:%d", f)
         [] t = "OFPACT_SET_L4_SRC_PORT" -> ds_put(s, "mod_tp_src:%d", f)
         [] t = "OFPACT_SET_L4_DST_PORT" -> ds_put(s, "mod_tp_dst:%d", f)
         [] t = "OFPACT_REG_MOVE" -> ds_put(s, "nxm_format_reg_move", f)
         [] t = "OFPACT_REG_LOAD" -> ds_put(s, "nxm_format_reg_load", f)
         [] t = "OFPACT_DEC_TTL" ->
              IF c THEN ds_put(s, "dec_nw_ttl", <<>>) ELSE print_dec_ttl(a, 0, s)
         [] t = "OFPACT_SET_TUNNEL" ->
              IF f[1] # 0 \/ f[2] # 0 \/ a.compat = "OFPUTIL_NXAST_SET_TUNNEL64"
              THEN ds_put(s, "set_tunnel64:%#x", f)
              ELSE ds_put(s, "set_tunnel:%#x", f)
         [] t = "OFPACT_SET_QUEUE" -> ds_put(s, "set_queue:%u", f)
         [] t = "OFPACT_POP_QUEUE" -> ds_put(s, "pop_queue", <<>>)
         [] t = "OFPACT_FIN_TIMEOUT" -> print_fin_timeout(f, s)
         [] t = "OFPACT_RESUBMIT" -> Resubmit
         [] t = "OFPACT_LEARN" -> ds_put(s, "learn_format", f)
         [] t = "OFPACT_MULTIPATH" -> ds_put(s, "multipath_format", f)
         [] t = "OFPACT_NOTE" -> print_note(f, 0, s)
         [] t = "OFPACT_PUSH_MPLS" -> ds_put(s, "push_mpls:0x%04x", f)
         [] t = "OFPACT_POP_MPLS" -> ds_put(s, "pop_mpls:0x%04x", f)
         [] t = "OFPACT_PUSH_L2" /\ c -> ds_put(s, "push_l2", <<>>)
         [] t = "OFPACT_POP_L2" /\ c -> ds_put(s, "pop_l2", <<>>)
         [] t = "OFPACT_SET_MPLS_TTL" /\ c -> ds_put(s, "set_mpls_ttl:%d", f)
         [] t = "OFPACT_EXIT" -> ds_put(s, "exit", <<>>)
         [] t = "OFPACT_CLEAR_ACTIONS" -> ds_put(s, "clear_actions", <<>>)
         [] t = "OFPACT_WRITE_METADATA" ->
              IF SubSeq(f, 9, 16) # <<255, 255, 255, 255, 255, 255, 255, 255>>
              THEN ds_put(ds_put(s, "write_metadata:%#x", SubSeq(f, 1, 8)),
                          "/%#x", SubSeq(f, 9, 16))
              ELSE ds_put(s, "write_metadata:%#x", SubSeq(f, 1, 8))
         [] t = "OFPACT_GOTO_TABLE" -> ds_put(s, "goto_table:%u", f)
         [] t = "OFPACT_GROUP" /\ c -> ds_put(s, "group:%u", f)
         [] t = "OFPACT_METER" /\ c -> ds_put(s, "meter:%u", f)
         [] OTHER -> s

RECURSIVE ofpacts_format_loop_trailing(_, _, _, _)
\* The walk with the comma put after each record instead of before each
\* record but the first.
ofpacts_format_loop_trailing(c, acts, i, s) ==
    IF i > Len(acts) THEN s
    ELSE ofpacts_format_loop_trailing(
             c, acts, i + 1, ds_put(ofpact_format(c, acts[i], s), ",", <<>>))

RECURSIVE ofpacts_format_loop(_, _, _, _)
\* OFPACT_FOR_EACH (a, ofpacts, ofpacts_len): a != ofpacts is i # 1.
ofpacts_format_loop(c, acts, i, s) ==
    IF i > Len(acts) THEN s
    ELSE ofpacts_format_loop(
             c, acts, i + 1,
             ofpact_format(c, acts[i],
                           IF i # 1 THEN ds_put(s, ",", <<>>) ELSE s))

ofpacts_format(c, buf, s) ==
    IF buf.size = 0
    THEN ds_put(ds_put(s, "actions=", <<>>), "drop", <<>>)
    ELSE ofpacts_format_loop(c, buf.acts, 1, ds_put(s, "actions=", <<>>))

(***************************************************************************)
(* The state machine: a caller that holds a wire buffer and an internal    *)
(* buffer and calls the entry points of the codec on them.                 *)
(***************************************************************************)
NoPull == [op |-> "none", bytes |-> <<>>, len |-> 0, error |-> OK, prior |-> 0]
NoPut == [op |-> "none", acts |-> <<>>, start |-> 0, out |-> <<>>,
          abort |-> FALSE, ret |-> 0, src |-> "none"]
NoVerify == [done |-> FALSE, acts |-> <<>>, error |-> OK]
NoClass == [version |-> 0, error |-> OK, code |-> ""]
NoCheck == [done |-> FALSE, acts |-> <<>>, flow |-> [dl_type |-> <<>>],
            max_ports |-> 0, error |-> OK]

\* Either a message has arrived and the internal buffer is fresh, or the
\* caller has built an internal list and the wire buffer is fresh.
Init ==
    /\ centec \in BOOLEAN
    /\ \/ openflow \in WireInputs /\ ofpacts = EmptyBuf
       \/ openflow = <<>> /\ ofpacts \in InternalInputs(centec)
    /\ pulled = NoPull
    /\ put = NoPut
    /\ verified = NoVerify
    /\ calls = 0
    /\ string = <<>>
    /\ formatted = [done |-> FALSE, acts |-> <<>>, prior |-> <<>>]
    /\ threads = <<>>
    /\ rl = RlBurst
    /\ classified = NoClass
    /\ checked = NoCheck
    /\ stale = NULL

\* The length arguments a caller passes: the whole buffer, its first unit,
\* more than it holds, and a length that is not a multiple of 8.
PullLens(w) ==
    { n \in {Len(w), 8, Len(w) + 8, Len(w) - 4} : n >= 0 }

Pulled(op, len, r) ==
    [op |-> op, bytes |-> openflow, len |-> len, error |-> r.error,
     prior |-> ofpacts.size]

PullOpenflow10 ==
    /\ calls < MaxCalls
    /\ \E len \in PullLens(openflow) :
       \E r \in {ofpacts_pull_openflow10(centec, openflow, len, ofpacts)} :
        /\ openflow' = r.openflow
        /\ ofpacts' = r.ofpacts
        /\ pulled' = Pulled("v10", len, r)
        /\ calls' = calls + 1
        /\ UNCHANGED <<centec, put, verified, string, formatted, threads, rl,
                 classified, checked, stale>>

PullOpenflow11Actions ==
    /\ calls < MaxCalls
    /\ \E len \in PullLens(openflow) :
       \E r \in {ofpacts_pull_openflow11_actions(centec, openflow, len, ofpacts)} :
        /\ openflow' = r.openflow
        /\ ofpacts' = r.ofpacts
        /\ pulled' = Pulled("v11", len, r)
        /\ calls' = calls + 1
        /\ UNCHANGED <<centec, put, verified, string, formatted, threads, rl,
                 classified, checked, stale>>

PullOpenflow11Instructions ==
    /\ calls < MaxCalls
    /\ \E len \in PullLens(openflow) :
       \E r \in {ofpacts_pull_openflow11_instructions(centec, openflow, len,
                                                        ofpacts)} :
        /\ openflow' = r.openflow
        /\ ofpacts' = r.ofpacts
        /\ pulled' = Pulled("inst", len, r)
        /\ calls' = calls + 1
        /\ UNCHANGED <<centec, put, verified, string, formatted, threads, rl,
                 classified, checked, stale>>

\* The list that an encoder is given is the content of the internal
\* buffer; src tells which decoder, if any, produced it.
Put(op, r, ret) ==
    [op |-> op, acts |-> ofpacts.acts, start |-> Len(openflow),
     out |-> SubSeq(r.openflow, Len(openflow) + 1, Len(r.openflow)),
     abort |-> r.abort, ret |-> ret,
     src |-> IF pulled.error = OK THEN pulled.op ELSE "none"]

PutOpenflow10 ==
    /\ calls < MaxCalls
    /\ \E r \in {ofpacts_put_openflow10(centec, ofpacts.acts, openflow)} :
         /\ Len(r.openflow) <= MaxWireBytes
         /\ openflow' = r.openflow
         /\ put' = Put("v10", r, 0)
         /\ calls' = calls + 1
         /\ UNCHANGED <<centec, ofpacts, pulled, verified, string, formatted,
                      threads, rl,
                 classified, checked, stale>>

PutOpenflow11Actions ==
    /\ calls < MaxCalls
    /\ \E r \in {ofpacts_put_openflow11_actions(centec, ofpacts.acts, openflow)} :
         /\ Len(r.openflow) <= MaxWireBytes
         /\ openflow' = r.openflow
         /\ put' = Put("v11", r, r.ret)
         /\ calls' = calls + 1
         /\ UNCHANGED <<centec, ofpacts, pulled, verified, string, formatted,
                      threads, rl,
                 classified, checked, stale>>

PutOpenflow11Instructions ==
    /\ calls < MaxCalls
    /\ \E r \in {ofpacts_put_openflow11_instructions(centec, ofpacts.acts, openflow)} :
         /\ Len(r.openflow) <= MaxWireBytes
         /\ openflow' = r.openflow
         /\ put' = Put("inst", r, 0)
         /\ calls' = calls + 1
         /\ UNCHANGED <<centec, ofpacts, pulled, verified, string, formatted,
                      threads, rl,
                 classified, checked, stale>>

Verify ==
    /\ calls < MaxCalls
    /\ verified' = [done |-> TRUE, acts |-> ofpacts.acts,
                    error |-> ofpacts_verify(ofpacts.acts)]
    /\ calls' = calls + 1
    /\ UNCHANGED <<centec, openflow, ofpacts, pulled, put, string,
                 formatted, threads, rl,
                 classified, checked, stale>>

Next ==
    \/ PullOpenflow10
    \/ PullOpenflow11Actions
    \/ PullOpenflow11Instructions
    \/ PutOpenflow10
    \/ PutOpenflow11Actions
    \/ PutOpenflow11Instructions
    \/ Verify

Spec == Init /\ [][Next]_vars

(***************************************************************************)
(* A caller that holds an internal list and a text buffer, which may       *)
(* already hold the text of a match, and calls ofpacts_format on them.     *)
(***************************************************************************)
\* Besides the encoders' inputs, lists of records whose rendering takes the
\* other branches of ofpact_format.
FormatInit ==
    LET FormatRecs ==
          { Rec("OFPACT_OUTPUT", INVALID, <<OFPP_CONTROLLER, 128>>),
            Rec("OFPACT_OUTPUT", INVALID, <<OFPP_LOCAL, 0>>),
            Rec("OFPACT_CONTROLLER", INVALID, <<128, 0, 1>>),
            Rec("OFPACT_CONTROLLER", INVALID, <<65535, 0, 0>>),
            Rec("OFPACT_DEC_TTL", "OFPUTIL_NXAST_DEC_TTL_CNT_IDS", <<2, 3, 4>>),
            Rec("OFPACT_FIN_TIMEOUT", INVALID, <<0, 0>>),
            Rec("OFPACT_RESUBMIT", INVALID, <<OFPP_IN_PORT, 255>>),
            Rec("OFPACT_WRITE_METADATA", INVALID,
                <<1, 2, 3, 4, 5, 6, 7, 8, 0, 0, 0, 0, 0, 0, 0, 255>>) }
    IN
    /\ centec \in BOOLEAN
    /\ openflow = <<>>
    /\ ofpacts \in InternalInputs(centec)
          \cup { BuildList(EmptyBuf, ds, 1) :
                   ds \in UNION { Lists(FormatRecs, n) : n \in 1..MaxChunks } }
    /\ pulled = NoPull
    /\ put = NoPut
    /\ verified = NoVerify
    /\ calls = 0
    /\ string \in { <<>>, ds_put(ds_put(<<>>, "in_port=%u", <<1>>), " ", <<>>) }
    /\ formatted = [done |-> FALSE, acts |-> <<>>, prior |-> <<>>]
    /\ threads = <<>>
    /\ rl = RlBurst
    /\ classified = NoClass
    /\ checked = NoCheck
    /\ stale = NULL

OfpactsFormat ==
    /\ calls < MaxCalls
    /\ string' = ofpacts_format(centec, ofpacts, string)
    /\ formatted' = [done |-> TRUE, acts |-> ofpacts.acts, prior |-> string]
    /\ calls' = calls + 1
    /\ UNCHANGED <<centec, openflow, ofpacts, pulled, put, verified, threads,
                 rl,
                 classified, checked, stale>>

FormatSpec == FormatInit /\ [][OfpactsFormat]_vars

(***************************************************************************)
(* Two threads, each making one call of the codec on buffers of its own.   *)
(* The code of a call touches only its arguments and, where it warns, the  *)
(* static rl: a step of a thread is the code up to its next access of rl.  *)
(* VLOG_WARN_RL and VLOG_DROP_WARN read the tokens of rl and write them    *)
(* back one lower without a lock of this file, so the read and the write   *)
(* are two steps and an update can be lost.                                *)
(***************************************************************************)
\* The call run to its end on the thread's own arguments: the error it
\* returns (or the abort) and the buffers it leaves.
Run(c, call) ==
    LET Res(error, wire, buf, str) ==
            [error |-> error, openflow |-> wire, ofpacts |-> buf, string |-> str]
        Pull(r) == Res(r.error, r.openflow, r.ofpacts, call.string)
        Enc(r) == Res(IF r.abort THEN "abort" ELSE OK, r.openflow, call.ofpacts,
                      call.string)
        op == call.op
    IN CASE op = "pull10" ->
              Pull(ofpacts_pull_openflow10(c, call.openflow, call.len, call.ofpacts))
         [] op = "pull11" ->
              Pull(ofpacts_pull_openflow11_actions(c, call.openflow, call.len,
                                                   call.ofpacts))
         [] op = "inst" ->
              Pull(ofpacts_pull_openflow11_instructions(c, call.openflow, call.len,
                                                        call.ofpacts))
         [] op = "put10" ->
              Enc(ofpacts_put_openflow10(c, call.ofpacts.acts, call.openflow))
         [] op = "put11" ->
              Enc(ofpacts_put_openflow11_actions(c, call.ofpacts.acts,
                                                 call.openflow))
         [] op = "putinst" ->
              Enc(ofpacts_put_openflow11_instructions(c, call.ofpacts.acts,
                                                      call.openflow))
         [] op = "verify" ->
              Res(ofpacts_verify(call.ofpacts.acts), call.openflow, call.ofpacts,
                  call.string)
         [] op = "format" ->
              Res(OK, call.openflow, call.ofpacts,
                  ofpacts_format(c, call.ofpacts, call.string))

\* The calls that warn through rl: a decode refused for a length or for an
\* action (lines 202, 544, 602, 609, 995, 1047, 1056).  The warnings of
\* ofpacts_verify and of the instruction classifier do not use rl.
WarnsRl(call, res) ==
    /\ call.op \in {"pull10", "pull11", "inst"}
    /\ res.error \notin {OK, "OFPERR_OFPBAC_UNSUPPORTED_ORDER",
                         "OFPERR_OFPBIC_UNSUP_INST", "OFPERR_OFPBIC_UNKNOWN_INST",
                         "OFPERR_OFPBIC_BAD_EXPERIMENTER"}

ConcInit ==
    LET Wires == { Act(0, 8, <<0, 1, 0, 0>>), Act(99, 8, Zeros(4)),
                   clear_actions }
        Lists1 == { BuildList(EmptyBuf, <<d>>, 1) :
                      d \in { r \in CoreRecs :
                                r.type \in {"OFPACT_OUTPUT",
                                            "OFPACT_CLEAR_ACTIONS"} } }
        Calls ==
            { [op |-> op, openflow |-> w, len |-> len, ofpacts |-> EmptyBuf,
               string |-> <<>>] :
                op \in {"pull10", "inst"}, w \in Wires, len \in {8, 12} }
            \cup { [op |-> op, openflow |-> <<>>, len |-> 0, ofpacts |-> b,
                    string |-> <<>>] :
                     op \in {"put10", "put11", "putinst", "verify", "format"},
                     b \in Lists1 }
            \cup { [op |-> "pull11", openflow |-> w, len |-> Len(w),
                    ofpacts |-> EmptyBuf, string |-> <<>>] :
                     w \in { Act(0, 16, <<0, 0, 0, 1, 0, 0>> \o Zeros(6)),
                             Act(23, 8, Zeros(4)) } }
    IN
    /\ centec \in BOOLEAN
    /\ openflow = <<>>
    /\ ofpacts = EmptyBuf
    /\ pulled = NoPull
    /\ put = NoPut
    /\ verified = NoVerify
    /\ calls = 0
    /\ string = <<>>
    /\ formatted = [done |-> FALSE, acts |-> <<>>, prior |-> <<>>]
    /\ threads \in [1..2 -> { [call |-> k, pc |-> "call", seen |-> 0,
                               logged |-> FALSE,
                               res |-> [error |-> "none",
                                        openflow |-> k.openflow,
                                        ofpacts |-> k.ofpacts,
                                        string |-> k.string]] :
                                k \in Calls }]
    /\ rl \in {0, 1, RlBurst}
    /\ classified = NoClass
    /\ checked = NoCheck
    /\ stale = NULL

\* The call up to its return or up to its warning.
ThreadCall(t) ==
    /\ threads[t].pc = "call"
    /\ threads' = [threads EXCEPT
                     ![t].res = Run(centec, threads[t].call),
                     ![t].pc = IF WarnsRl(threads[t].call,
                                          Run(centec, threads[t].call))
                               THEN "rl_read" ELSE "done"]
    /\ UNCHANGED <<centec, openflow, ofpacts, pulled, put, verified, calls,
                   string, formatted, rl,
                 classified, checked, stale>>

\* vlog_should_drop reads the tokens.
ThreadRlRead(t) ==
    /\ threads[t].pc = "rl_read"
    /\ threads' = [threads EXCEPT ![t].seen = rl, ![t].pc = "rl_write"]
    /\ UNCHANGED <<centec, openflow, ofpacts, pulled, put, verified, calls,
                   string, formatted, rl,
                 classified, checked, stale>>

\* A writer whose return value depends on whether the warning was dropped.
ThreadRlWrite_dropped(t) ==
    /\ threads[t].pc = "rl_write"
    /\ rl' = IF threads[t].seen > 0 THEN threads[t].seen - 1 ELSE 0
    /\ threads' = [threads EXCEPT
                     ![t].logged = threads[t].seen > 0,
                     ![t].res.error = IF threads[t].seen > 0
                                      THEN threads[t].res.error ELSE OK,
                     ![t].pc = "done"]
    /\ UNCHANGED <<centec, openflow, ofpacts, pulled, put, verified, calls,
                   string, formatted,
                 classified, checked, stale>>

\* It takes a token and warns, or drops the warning; the call then returns
\* its error whatever happened to the warning.
ThreadRlWrite(t) ==
    /\ threads[t].pc = "rl_write"
    /\ rl' = IF threads[t].seen > 0 THEN threads[t].seen - 1 ELSE 0
    /\ threads' = [threads EXCEPT
                     ![t].logged = threads[t].seen > 0,
                     ![t].pc = "done"]
    /\ UNCHANGED <<centec, openflow, ofpacts, pulled, put, verified, calls,
                   string, formatted,
                 classified, checked, stale>>

ConcNext ==
    \E t \in 1..2 : ThreadCall(t) \/ ThreadRlRead(t) \/ ThreadRlWrite(t)

ConcSpec == ConcInit /\ [][ConcNext]_vars

(***************************************************************************)
(* A caller of decode_openflow10_action and decode_openflow11_action with  *)
(* one wire action of any type, len, vendor and subtype in 16 bytes.       *)
(***************************************************************************)
ClassifyInit ==
    /\ centec \in BOOLEAN
    /\ openflow \in { Htons(type) \o Htons(len) \o vendor \o Htons(subtype)
                          \o Zeros(6) :
                        type \in {0, 1, 4, 11, 12, 17, 22, 24, 99, OFPAT_VENDOR},
                        len \in {0, 8, 12, 16, 24, 32, 40},
                        vendor \in {NX_VENDOR_ID, <<0, 0, 35, 33>>, Zeros(4)},
                        subtype \in {0, 1, 3, 8, 11, 16, 21, 22, 25, 27} }
    /\ ofpacts = EmptyBuf
    /\ pulled = NoPull
    /\ put = NoPut
    /\ verified = NoVerify
    /\ calls = 0
    /\ string = <<>>
    /\ formatted = [done |-> FALSE, acts |-> <<>>, prior |-> <<>>]
    /\ threads = <<>>
    /\ rl = RlBurst
    /\ classified = NoClass
    /\ checked = NoCheck
    /\ stale = NULL

Classify ==
    /\ calls < MaxCalls
    /\ \E version \in {10, 11} :
       \E d \in { IF version = 10 THEN decode_openflow10_action(centec, openflow, 0)
                  ELSE decode_openflow11_action(centec, openflow, 0) } :
         classified' = [version |-> version, error |-> d.error, code |-> d.code]
    /\ calls' = calls + 1
    /\ UNCHANGED <<centec, openflow, ofpacts, pulled, put, verified, string,
                   formatted, threads, rl, checked, stale>>

ClassifySpec == ClassifyInit /\ [][Classify]_vars

(***************************************************************************)
(* A caller of ofpacts_check with a list of its own, a flow and a number   *)
(* of ports.                                                               *)
(***************************************************************************)
CheckInit ==
    LET Sub(type, len, at, field) ==
            Rec(type, INVALID, Store(Zeros(len), at, field))
        Fields == {NXM_NX_REG0, <<0, 0, 14, 4>>, <<128, 0, 68, 4>>}
        CheckRecs ==
            { Rec("OFPACT_PUSH_MPLS", INVALID, <<136, 71>>),
              Rec("OFPACT_POP_MPLS", INVALID, <<8, 0>>),
              Rec("OFPACT_OUTPUT", INVALID, <<1, 0>>),
              Rec("OFPACT_ENQUEUE", INVALID, <<3, 0, 7>>),
              Rec("OFPACT_OUTPUT_REG", INVALID, <<0, 16, 0, 128, 0, 68, 4>>),
              Sub("OFPACT_MULTIPATH", 32, 28, <<0, 0, 14, 4>>),
              Sub("OFPACT_BUNDLE", 32, 24, <<128, 0, 68, 4>>),
              Sub("OFPACT_LEARN", 48, 34, <<0, 0, 14, 4>>) }
                \cup { Sub("OFPACT_REG_MOVE", 24, 20, f) : f \in Fields }
                \cup { Sub("OFPACT_REG_LOAD", 24, 12, f) : f \in Fields }
    IN
    /\ centec \in BOOLEAN
    /\ openflow = <<>>
    /\ ofpacts \in { BuildList(EmptyBuf, ds, 1) :
                       ds \in UNION { Lists(CheckRecs, n) : n \in 0..MaxChunks } }
    /\ pulled = NoPull
    /\ put = NoPut
    /\ verified = NoVerify
    /\ calls = 0
    /\ string = <<>>
    /\ formatted = [done |-> FALSE, acts |-> <<>>, prior |-> <<>>]
    /\ threads = <<>>
    /\ rl = RlBurst
    /\ classified = NoClass
    /\ checked = NoCheck
    /\ stale = NULL

OfpactsCheck ==
    /\ calls < MaxCalls
    /\ \E dl_type \in {<<8, 0>>, <<8, 6>>, <<136, 71>>} :
       \E max_ports \in {2, OFPP_MAX} :
         checked' = [done |-> TRUE, acts |-> ofpacts.acts,
                     flow |-> [dl_type |-> dl_type], max_ports |-> max_ports,
                     error |-> ofpacts_check(centec, ofpacts.acts,
                                             [dl_type |-> dl_type], max_ports)]
    /\ calls' = calls + 1
    /\ UNCHANGED <<centec, openflow, ofpacts, pulled, put, verified, string,
                   formatted, threads, rl, classified, stale>>

CheckSpec == CheckInit /\ [][OfpactsCheck]_vars

(***************************************************************************)
(* A caller that decodes one NXAST_DEC_TTL_CNT_IDS action into a buffer    *)
(* that ofpbuf_put may have to move: the storage of the buffer before the  *)
(* move is freed, and what a read of it gives is not defined.              *)
(***************************************************************************)
DecTtlInit ==
    /\ stale \in {NULL, 0, 2}
    /\ centec \in BOOLEAN
    /\ openflow \in { NxAct(21, 16, Htons(n) \o zeros) :
                        n \in {0, 1, 2, 5}, zeros \in {Zeros(4), <<0, 0, 0, 1>>} }
                    \cup { NxAct(21, 24, Htons(n) \o zeros \o ids) :
                             n \in {0, 1, 2, 5},
                             zeros \in {Zeros(4), <<0, 0, 0, 1>>},
                             ids \in {<<0, 3, 0, 4, 0, 0, 0, 0>>,
                                      <<0, 7, 0, 0, 0, 0, 0, 0>>} }
    /\ ofpacts = EmptyBuf
    /\ pulled = NoPull
    /\ put = NoPut
    /\ verified = NoVerify
    /\ calls = 0
    /\ string = <<>>
    /\ formatted = [done |-> FALSE, acts |-> <<>>, prior |-> <<>>]
    /\ threads = <<>>
    /\ rl = RlBurst
    /\ classified = NoClass
    /\ checked = NoCheck

DecTtlNext == PullOpenflow10 \/ PullOpenflow11Actions

DecTtlSpec == DecTtlInit /\ [][DecTtlNext]_vars
(***************************************************************************)
(* Properties.                                                             *)
(***************************************************************************)
DecodeOps == {"v10", "v11", "inst"}

\* C1: whenever ofpacts_pull_openflow10, ofpacts_pull_openflow11_actions or
\* ofpacts_pull_openflow11_instructions returns a non-zero error, the
\* internal buffer is empty on return, whatever the wire bytes, the length
\* argument and the prior content of the buffer, and even if records had
\* been appended before the error was found.
C1_ErrorLeavesBufferEmpty ==
    (pulled.op \in DecodeOps /\ pulled.error # OK) => ofpacts = EmptyBuf

\* C1's case: a decode over a buffer that held records fails only after it
\* has converted more than one action (the order check of the whole list).
C1_Witness ==
    /\ pulled.op \in {"v10", "v11"}
    /\ pulled.error = "OFPERR_OFPBAC_UNSUPPORTED_ORDER"
    /\ pulled.prior > 0
    /\ pulled.len > 8
    /\ ofpacts = EmptyBuf
\* The bytes of the action at offset o that its wire struct reserves (pad,
\* zero, zeros), as <<offset, count>> pairs relative to the action.
Reserved10(b, o) ==
    LET type == Ntohs(b, o)
        subtype == Ntohs(b, o + 8)
    IN IF type # OFPAT_VENDOR
       THEN CASE type \in {1, 9, 10} -> {<<6, 2>>}
              [] type \in {2, 8} -> {<<5, 3>>}
              [] type = 3 -> {<<4, 4>>}
              [] type \in {4, 5} -> {<<10, 6>>}
              [] type = 11 -> {<<6, 6>>}
              [] OTHER -> {}
       ELSE CASE subtype = 1 -> {<<12, 4>>}
              [] subtype = 14 -> {<<13, 3>>}
              [] subtype \in {2, 4} -> {<<10, 2>>}
              [] subtype \in {5, 9, 17, 18, 22, 25, 26} -> {<<10, 6>>}
              [] subtype = 15 -> {<<18, 6>>}
              [] subtype = 19 -> {<<14, 2>>}
              [] subtype = 20 -> {<<15, 1>>}
              [] subtype = 21 ->
                   {<<12, 4>>,
                    <<16 + 2 * Ntohs(b, o + 10),
                      Ntohs(b, o + 2) - 16 - 2 * Ntohs(b, o + 10)>>}
              [] subtype \in {23, 24} -> {<<12, 4>>}
              [] OTHER -> {}

\* The action at offset o is in the canonical encoding: its reserved bytes
\* are zero and a dec_ttl_cnt_ids action has no more id slots than its ids
\* need.
CanonicalAction10(b, o) ==
    /\ \A r \in Reserved10(b, o) : is_all_zeros(b, o + r[1], r[2])
    /\ (Ntohs(b, o) = OFPAT_VENDOR /\ Ntohs(b, o + 8) = 21)
           => Ntohs(b, o + 2) = 16 + ROUND_UP(2 * Ntohs(b, o + 10), 8)

RECURSIVE Canonical10(_, _, _)
\* Every action of the n bytes of b from offset o on is canonical.
Canonical10(b, o, n) ==
    o >= n \/ (CanonicalAction10(b, o) /\ Canonical10(b, o + Ntohs(b, o + 2), n))

\* C2: for every OpenFlow 1.0 action list B that ofpacts_pull_openflow10
\* accepts and that is in the canonical encoding, ofpacts_put_openflow10
\* applied to the decoded list appends bytes identical to B.
C2_RoundTrip10 ==
    (/\ pulled.op = "v10" /\ pulled.error = OK
     /\ Canonical10(pulled.bytes, 0, pulled.len)
     /\ put.op = "v10" /\ put.acts = ofpacts.acts)
        => (~put.abort /\ put.out = SubSeq(pulled.bytes, 1, pulled.len))

\* C2's case: a list of two actions, one of which keeps its wire opcode in
\* compat, was decoded and encoded back.
C2_Witness ==
    /\ pulled.op = "v10" /\ pulled.error = OK /\ pulled.len >= 32
    /\ Canonical10(pulled.bytes, 0, pulled.len)
    /\ put.op = "v10" /\ put.acts = ofpacts.acts /\ put.start = 0
    /\ Len(ofpacts.acts) = 2
    /\ \E i \in 1..2 : ofpacts.acts[i].compat # INVALID
    /\ put.out = pulled.bytes
\* The reserved bytes of the native OpenFlow 1.1 action at offset o.
Reserved11(b, o) ==
    LET type == Ntohs(b, o) IN
    CASE type \in {0, 3, 4} -> {<<10, 6>>}
      [] type \in {1, 9, 10, 17, 19, 20} -> {<<6, 2>>}
      [] type \in {2, 7, 15} -> {<<5, 3>>}
      [] type \in {18, 24} -> {<<4, 4>>}
      [] OTHER -> {}

RECURSIVE Canonical11(_, _, _)
\* The n bytes of b from offset o on hold native 1.1 actions only, with
\* their reserved bytes zero.
Canonical11(b, o, n) ==
    o >= n \/ (/\ Ntohs(b, o) # OFPAT_VENDOR
               /\ \A r \in Reserved11(b, o) : is_all_zeros(b, o + r[1], r[2])
               /\ Canonical11(b, o + Ntohs(b, o + 2), n))

\* C3: for every OpenFlow 1.1 action list B that
\* ofpacts_pull_openflow11_actions accepts and that is in the canonical
\* encoding (native 1.1 kinds, push_vlan 0x8100, push_mpls, pop_mpls,
\* set_queue and dec_nw_ttl included), ofpacts_put_openflow11_actions applied
\* to the decoded list appends bytes identical to B and returns the length of
\* B.
C3_RoundTrip11 ==
    (/\ pulled.op = "v11" /\ pulled.error = OK
     /\ Canonical11(pulled.bytes, 0, pulled.len)
     /\ put.op = "v11" /\ put.acts = ofpacts.acts)
        => (/\ ~put.abort
            /\ put.out = SubSeq(pulled.bytes, 1, pulled.len)
            /\ put.ret = pulled.len)
RECURSIVE SumLen(_, _)
\* The sum of the len fields of the records i.. of acts.
SumLen(acts, i) == IF i > Len(acts) THEN 0 ELSE acts[i].len + SumLen(acts, i + 1)

EndOfLast(buf) ==
    IF buf.acts = <<>> THEN 0 ELSE L2(buf).ofs + L2(buf).len

Category(a) ==
    CASE a.type = "OFPACT_CLEAR_ACTIONS" -> 1
      [] a.type = "OFPACT_WRITE_METADATA" -> 2
      [] a.type = "OFPACT_GOTO_TABLE" -> 3
      [] OTHER -> 0

\* The categories never decrease and no category but apply occurs twice.
OrderOk(acts) ==
    \A i, j \in 1..Len(acts) :
        i < j => /\ Category(acts[i]) <= Category(acts[j])
                 /\ Category(acts[i]) = Category(acts[j]) => Category(acts[i]) = 0

\* C6: ofpacts_verify returns 0 if and only if the sequence of instruction
\* categories of the list never decreases and no non-apply category occurs
\* twice; otherwise it returns OFPERR_OFPBAC_UNSUPPORTED_ORDER.
C6_VerifyOrder ==
    verified.done
        => verified.error = IF OrderOk(verified.acts) THEN OK
                            ELSE "OFPERR_OFPBAC_UNSUPPORTED_ORDER"

\* C6's case: ofpacts_verify refused a list in which an apply-category
\* record follows a clear_actions record.
C6_Witness ==
    /\ verified.done
    /\ verified.error = "OFPERR_OFPBAC_UNSUPPORTED_ORDER"
    /\ Len(verified.acts) = 3
    /\ Category(verified.acts[1]) = 0
    /\ Category(verified.acts[2]) = 1
    /\ Category(verified.acts[3]) = 0
\* The instruction list of the first n bytes of b is well formed (every
\* instruction classifies, no kind twice, the lengths tile), it holds
\* goto_table and, after it, clear_actions, no write-actions and no meter,
\* and its apply-actions list, if any, converts to apply-category records.
ClearAfterGoto(c, b, n) ==
    /\ n % OFP11_INSTRUCTION_ALIGN = 0 /\ n <= Len(b)
    /\ LET d == decode_openflow11_instructions(b, n \div OFP11_INSTRUCTION_ALIGN)
           apply == d.insts[OVSINST_APPLY]
       IN /\ d.error = OK
          /\ d.insts[OVSINST_GOTO_TABLE] # NULL
          /\ d.insts[OVSINST_CLEAR] > d.insts[OVSINST_GOTO_TABLE]
          /\ d.insts[OVSINST_WRITE_ACTIONS] = NULL
          /\ d.insts[OVSINST_METER] = NULL
          /\ apply # NULL =>
                LET r == ofpacts_from_openflow(11, c, b, InstActions(b, apply),
                                               InstNActions(b, apply), EmptyBuf)
                IN /\ r.error = OK
                   /\ \A i \in 1..Len(r.out.acts) : Category(r.out.acts[i]) = 0

\* C7, as stated: decoding a well-formed instruction list in which
\* clear_actions follows goto_table on the wire ends with
\* OFPERR_OFPBAC_UNSUPPORTED_ORDER.
C7_ClearAfterGotoRefused ==
    (pulled.op = "inst" /\ ClearAfterGoto(centec, pulled.bytes, pulled.len))
        => pulled.error = "OFPERR_OFPBAC_UNSUPPORTED_ORDER"

\* C7, amended: such a list is never refused for its order.  Without
\* _OFP_CENTEC_ the decode succeeds and the records are in the fixed order
\* of the framer, clear_actions before goto_table, whatever the wire order;
\* with _OFP_CENTEC_ the goto_table instruction is refused with
\* OFPERR_OFPBIC_UNSUP_INST.
C7_FramerReorders ==
    (pulled.op = "inst" /\ ClearAfterGoto(centec, pulled.bytes, pulled.len))
        => IF centec
           THEN pulled.error = "OFPERR_OFPBIC_UNSUP_INST"
           ELSE /\ pulled.error = OK
                /\ OrderOk(ofpacts.acts)
                /\ L2(ofpacts).type = "OFPACT_GOTO_TABLE"
                /\ \E i \in 1..Len(ofpacts.acts) :
                       ofpacts.acts[i].type = "OFPACT_CLEAR_ACTIONS"

\* C7's case: apply(output:1), goto_table(5), clear_actions was decoded
\* without _OFP_CENTEC_ into output:1, clear_actions, goto_table(5).
C7_Witness ==
    /\ ~centec
    /\ pulled.op = "inst" /\ pulled.error = OK
    /\ pulled.len = 40
    /\ pulled.bytes = apply_actions(Act(0, 16, <<0, 0, 0, 1, 0, 0>> \o Zeros(6)))
                          \o goto_table \o clear_actions
    /\ Len(ofpacts.acts) = 3
    /\ ofpacts.acts[1].type = "OFPACT_OUTPUT" /\ ofpacts.acts[1].f = <<1, 0>>
    /\ ofpacts.acts[2].type = "OFPACT_CLEAR_ACTIONS"
    /\ ofpacts.acts[3].type = "OFPACT_GOTO_TABLE" /\ ofpacts.acts[3].f = <<5>>
RECURSIVE HasDuplicate(_, _, _, _)
\* Walking the instructions of b from offset o, with left units remaining
\* and the wire types in seen met so far: a type occurs for the second time
\* and every instruction up to and including that one has a length that fits
\* and classifies without error.
HasDuplicate(b, o, left, seen) ==
    /\ left > 0
    /\ Ntohs(b, o + 2) % 8 = 0
    /\ Ntohs(b, o + 2) >= 8
    /\ Ntohs(b, o + 2) <= left * 8
    /\ decode_openflow11_instruction(b, o).error = OK
    /\ \/ Ntohs(b, o) \in seen
       \/ HasDuplicate(b, o + Ntohs(b, o + 2), left - Ntohs(b, o + 2) \div 8,
                       seen \cup {Ntohs(b, o)})

\* C8: ofpacts_pull_openflow11_instructions refuses with
\* OFPERR_OFPBAC_UNSUPPORTED_ORDER every instruction list (a length that is a
\* multiple of 8 and within the buffer) in which an instruction kind occurs
\* more than once, provided every instruction up to the second occurrence
\* classifies without error.
C8_DuplicateInstruction ==
    (/\ pulled.op = "inst"
     /\ pulled.len % 8 = 0 /\ pulled.len <= Len(pulled.bytes)
     /\ HasDuplicate(pulled.bytes, 0, pulled.len \div 8, {}))
        => (pulled.error = "OFPERR_OFPBAC_UNSUPPORTED_ORDER" /\ ofpacts = EmptyBuf)

\* C8's case: two write_metadata instructions were refused.
C8_Witness ==
    /\ pulled.op = "inst"
    /\ pulled.bytes = write_metadata \o write_metadata
    /\ pulled.len = 48
    /\ pulled.error = "OFPERR_OFPBAC_UNSUPPORTED_ORDER"
    /\ ofpacts = EmptyBuf
\* The len field of the action at offset o fits: a multiple of 8, at least
\* 8 and not larger than the left units that remain.
Fits(b, o, left) ==
    /\ Ntohs(b, o + 2) % 8 = 0
    /\ Ntohs(b, o + 2) >= 8
    /\ Ntohs(b, o + 2) <= left * 8

RECURSIVE Tiles(_, _, _)
\* The len fields of the actions from offset o on exactly tile the left
\* units that remain.
Tiles(b, o, left) ==
    left = 0 \/ (Fits(b, o, left)
                 /\ Tiles(b, o + Ntohs(b, o + 2), left - Ntohs(b, o + 2) \div 8))

RECURSIVE AllConvert(_, _, _, _, _)
\* Every action from offset o on whose len fits classifies and converts
\* without error, up to the end or to the first len that does not fit.
AllConvert(version, c, b, o, left) ==
    \/ left = 0
    \/ ~Fits(b, o, left)
    \/ /\ ofpact_from_openflow(version, c, b, o, EmptyBuf).error = OK
       /\ AllConvert(version, c, b, o + Ntohs(b, o + 2),
                     left - Ntohs(b, o + 2) \div 8)

Version(op) == IF op = "v10" THEN 10 ELSE 11
BadLen == {"OFPERR_OFPBAC_BAD_LEN", "OFPERR_OFPBRC_BAD_LEN"}

\* C9, as stated: a length that is not a multiple of 8 gives BAD_LEN; for a
\* list of N units whose actions all classify and convert, the decode
\* succeeds if and only if the len fields tile the buffer, and gives BAD_LEN
\* otherwise; the empty list succeeds with an empty output.
C9_TilingDecides ==
    pulled.op \in {"v10", "v11"}
        => /\ pulled.len % 8 # 0 => pulled.error \in BadLen
           /\ (/\ pulled.len % 8 = 0 /\ pulled.len <= Len(pulled.bytes)
               /\ AllConvert(Version(pulled.op), centec, pulled.bytes, 0,
                             pulled.len \div 8))
                  => IF Tiles(pulled.bytes, 0, pulled.len \div 8)
                     THEN pulled.error = OK
                     ELSE pulled.error \in BadLen
           /\ pulled.len = 0 => (pulled.error = OK /\ ofpacts = EmptyBuf)

\* C9, amended: as above, except that a list whose len fields tile the
\* buffer and whose actions all convert succeeds if and only if the
\* converted records also pass the order check of ofpacts_verify, and is
\* refused with OFPERR_OFPBAC_UNSUPPORTED_ORDER otherwise.  A length that is
\* not a multiple of 8 or exceeds the buffer gives OFPERR_OFPBRC_BAD_LEN, len
\* fields that do not tile give OFPERR_OFPBAC_BAD_LEN.
C9_TilingAndOrder ==
    pulled.op \in {"v10", "v11"}
        => /\ (pulled.len % 8 # 0 \/ pulled.len > Len(pulled.bytes))
                  => pulled.error = "OFPERR_OFPBRC_BAD_LEN"
           /\ (/\ pulled.len % 8 = 0 /\ pulled.len <= Len(pulled.bytes)
               /\ AllConvert(Version(pulled.op), centec, pulled.bytes, 0,
                             pulled.len \div 8))
                  => IF ~Tiles(pulled.bytes, 0, pulled.len \div 8)
                     THEN pulled.error = "OFPERR_OFPBAC_BAD_LEN"
                     ELSE LET A == ofpacts_from_openflow(
                                       Version(pulled.op), centec, pulled.bytes,
                                       0, pulled.len \div 8, EmptyBuf).out.acts
                          IN pulled.error = IF OrderOk(A) THEN OK
                                            ELSE "OFPERR_OFPBAC_UNSUPPORTED_ORDER"
           /\ pulled.len = 0 => (pulled.error = OK /\ ofpacts = EmptyBuf)

\* C9's case: a list of two units whose first action converts and whose
\* second action claims 16 bytes where 8 remain was refused.
C9_Witness ==
    /\ pulled.op \in {"v10", "v11"}
    /\ pulled.len = 16 /\ Len(pulled.bytes) = 16
    /\ Ntohs(pulled.bytes, 2) = 8
    /\ Ntohs(pulled.bytes, 10) = 16
    /\ AllConvert(Version(pulled.op), centec, pulled.bytes, 0, 2)
    /\ pulled.error = "OFPERR_OFPBAC_BAD_LEN"
    /\ ofpacts = EmptyBuf
\* C10: a decoded list whose first action is an NX resubmit_table,
\* output_reg, write_metadata or dec_ttl_cnt_ids with a non-zero byte in its
\* reserved-zero field is rejected with MUST_BE_ZERO.
C10_MustBeZero ==
    (/\ pulled.op \in {"v10", "v11"}
     /\ pulled.len = Len(pulled.bytes)
     /\ \E x \in NonZero10 :
            /\ Len(x) <= Len(pulled.bytes)
            /\ SubSeq(pulled.bytes, 1, Len(x)) = x)
        => pulled.error = "OFPERR_NXBRC_MUST_BE_ZERO"
\* The opcode that the classifier of the decode call gave the first action
\* of the wire buffer.
WireOpcode ==
    IF pulled.op = "v10" THEN decode_openflow10_action(centec, pulled.bytes, 0).code
    ELSE decode_openflow11_action(centec, pulled.bytes, 0).code

\* C11: after a successful decode of a list of one wire action, every
\* record of the internal list carries compat equal to the opcode of that
\* action; the 1.0 output action 00 00 00 08 00 01 ff ff gives exactly one
\* output record with port 1, max_len 0xffff and compat OFPAT10_OUTPUT.
C11_CompatIsOpcode ==
    (/\ pulled.op \in {"v10", "v11"}
     /\ pulled.error = OK
     /\ pulled.len = Len(pulled.bytes)
     /\ Len(pulled.bytes) >= 8
     /\ Ntohs(pulled.bytes, 2) = Len(pulled.bytes))
        => /\ \A i \in 1..Len(ofpacts.acts) : ofpacts.acts[i].compat = WireOpcode
           /\ (pulled.op = "v10" /\ pulled.bytes = <<0, 0, 0, 8, 0, 1, 255, 255>>)
                  => ofpacts.acts = << [type |-> "OFPACT_OUTPUT",
                                        compat |-> "OFPUTIL_OFPAT10_OUTPUT",
                                        len |-> 8, ofs |-> 0,
                                        f |-> <<1, 65535>>] >>
\* C12: when ofpacts_put_openflow10 encodes a list of one dec_ttl record
\* with n_controllers = 1 and ids = [0], it appends the plain NX dec_ttl
\* action (16 bytes, subtype 18), both when compat is the plain NX dec_ttl
\* opcode and when compat is OFPUTIL_ACTION_INVALID.
C12_DecTtlPlainShape ==
    (/\ put.op = "v10"
     /\ Len(put.acts) = 1
     /\ put.acts[1].type = "OFPACT_DEC_TTL"
     /\ put.acts[1].f = <<1, 0>>
     /\ put.acts[1].compat \in {"OFPUTIL_NXAST_DEC_TTL", INVALID})
        => /\ ~put.abort
           /\ put.out = NxAct(18, 16, Zeros(6))
\* The internal list that the OpenFlow 1.0 decoder makes of the bytes that
\* the last encode appended.
Redecoded10 ==
    ofpacts_from_openflow(10, centec, put.out, 0, Len(put.out) \div 8, EmptyBuf)

\* C13: when ofpacts_put_openflow10 encodes a list of one set_tunnel,
\* resubmit or dec_ttl record, of any values and any compat, decoding the
\* bytes it appended gives one record of the same kind with the same tun_id,
\* the same (in_port, table_id), the same controller ids; tun_id
\* 0x1_0000_0000 is emitted as set_tunnel64 (subtype 9) and tun_id 7 with
\* compat set_tunnel as the 32-bit set_tunnel (subtype 2).
C13_ShapeIsLossless ==
    (/\ put.op = "v10"
     /\ Len(put.acts) = 1
     /\ put.acts[1].type \in {"OFPACT_SET_TUNNEL", "OFPACT_RESUBMIT",
                              "OFPACT_DEC_TTL"})
        => /\ ~put.abort
           /\ Redecoded10.error = OK
           /\ Len(Redecoded10.out.acts) = 1
           /\ Redecoded10.out.acts[1].type = put.acts[1].type
           /\ Redecoded10.out.acts[1].f = put.acts[1].f
           /\ (put.acts[1].type = "OFPACT_SET_TUNNEL" /\ put.acts[1].f = <<0, 1, 0, 0>>)
                  => Ntohs(put.out, 8) = 9
           /\ (/\ put.acts[1].type = "OFPACT_SET_TUNNEL"
               /\ put.acts[1].f = <<0, 0, 0, 7>>
               /\ put.acts[1].compat = "OFPUTIL_NXAST_SET_TUNNEL")
                  => Ntohs(put.out, 8) = 2
\* C14: when ofpacts_put_openflow10 encodes a list of one note record of
\* payload length L, the NX note action it appends is padded with zeros to a
\* multiple of 8, its len is the number of bytes appended, and decoding it
\* gives one note record with the same payload length L and the same
\* payload bytes.
C14_NoteRoundTrip ==
    (/\ put.op = "v10"
     /\ Len(put.acts) = 1
     /\ put.acts[1].type = "OFPACT_NOTE")
        => /\ ~put.abort
           /\ Len(put.out) % 8 = 0
           /\ Ntohs(put.out, 2) = Len(put.out)
           /\ Redecoded10.error = OK
           /\ Len(Redecoded10.out.acts) = 1
           /\ Redecoded10.out.acts[1].type = "OFPACT_NOTE"
           /\ Redecoded10.out.acts[1].f = put.acts[1].f
\* C15: when ofpacts_put_openflow10 or ofpacts_put_openflow11_actions
\* encodes a list of one record, exactly one of three things happens: a
\* native action is appended, an NX vendor action is appended, or the
\* encoder stops at an internal assertion. It never returns normally having
\* appended nothing.
C15_OneOfThreeOutcomes ==
    (/\ put.op \in {"v10", "v11"}
     /\ Len(put.acts) = 1)
        => \/ put.abort
           \/ /\ Len(put.out) >= OfpActionSize
              /\ Ntohs(put.out, 2) = Len(put.out)
\* A pull of the 1.0 decoder over exactly one well-formed enqueue action.
EnqueuePulled ==
    /\ pulled.op = "v10"
    /\ pulled.len = 16
    /\ Len(pulled.bytes) = 16
    /\ Ntohs(pulled.bytes, 0) = 11
    /\ Ntohs(pulled.bytes, 2) = 16

EnqueuePort == Ntohs(pulled.bytes, 4)

RECURSIVE WriteToApply(_, _)
\* The instruction list b with the type of every write-actions instruction
\* from offset o on replaced by that of apply-actions.
WriteToApply(b, o) ==
    IF o + Ofp11InstructionSize > Len(b) \/ Ntohs(b, o + 2) < Ofp11InstructionSize
    THEN b
    ELSE WriteToApply(IF Ntohs(b, o) = 3 THEN Store(b, o, Htons(4)) ELSE b,
                      o + Ntohs(b, o + 2))

\* A pull of the instruction decoder over a whole well-formed instruction
\* list: the instructions tile the buffer, each is of a known type and
\* length, and none occurs twice.
InstsPulled ==
    /\ pulled.op = "inst"
    /\ pulled.len = Len(pulled.bytes)
    /\ pulled.len % OFP11_INSTRUCTION_ALIGN = 0
    /\ decode_openflow11_instructions(
           pulled.bytes, pulled.len \div OFP11_INSTRUCTION_ALIGN).error = OK

PulledInsts ==
    decode_openflow11_instructions(
        pulled.bytes, pulled.len \div OFP11_INSTRUCTION_ALIGN).insts

AsApply ==
    ofpacts_pull_openflow11_instructions(
        centec, WriteToApply(pulled.bytes, 0), pulled.len, EmptyBuf)

\* C17: under _OFP_CENTEC_ a well-formed instruction list with
\* write-actions(L) and no apply-actions decodes to the same error or the
\* same internal list as the list with apply-actions(L) in its place,
\* whatever other instructions it holds; a list with both apply-actions and
\* write-actions is refused with OFPERR_OFPBIC_UNSUP_INST; without
\* _OFP_CENTEC_ a list with write-actions is refused with
\* OFPERR_OFPBIC_UNSUP_INST.
C17_WriteActionsAsApply ==
    (InstsPulled /\ PulledInsts[OVSINST_WRITE_ACTIONS] # NULL)
        => IF ~centec THEN pulled.error = "OFPERR_OFPBIC_UNSUP_INST"
           ELSE IF PulledInsts[OVSINST_APPLY] # NULL
           THEN pulled.error = "OFPERR_OFPBIC_UNSUP_INST"
           ELSE /\ AsApply.error = pulled.error
                /\ AsApply.ofpacts.acts = ofpacts.acts
\* The text that the last ofpacts_format call appended.
Appended == SubSeq(string, Len(formatted.prior) + 1, Len(string))

Rendering(a) == ofpact_format(centec, a, <<>>)

RECURSIVE Joined(_, _)
\* The renderings of the records i.. of acts, a "," before each but the
\* first of the list.
Joined(acts, i) ==
    IF i > Len(acts) THEN <<>>
    ELSE (IF i = 1 THEN <<>> ELSE ds_put(<<>>, ",", <<>>))
             \o Rendering(acts[i]) \o Joined(acts, i + 1)

\* C18: ofpacts_format appends, to whatever the text buffer holds,
\* "actions=" followed by "drop" when the list is empty and otherwise by
\* one non-empty rendering per record, in list order, a single comma
\* between two renderings and none before the first or after the last.
C18_FormatShape ==
    formatted.done
        => /\ SubSeq(string, 1, Len(formatted.prior)) = formatted.prior
           /\ Appended[1] = [fmt |-> "actions=", args |-> <<>>]
           /\ \A i \in 1..Len(formatted.acts) :
                  /\ Rendering(formatted.acts[i]) # <<>>
                  /\ Rendering(formatted.acts[i])[1].fmt # ","
                  /\ Rendering(formatted.acts[i])[
                         Len(Rendering(formatted.acts[i]))].fmt # ","
           /\ SubSeq(Appended, 2, Len(Appended))
                = IF formatted.acts = <<>> THEN ds_put(<<>>, "drop", <<>>)
                  ELSE Joined(formatted.acts, 1)

C18_Witness ==
    /\ formatted.done
    /\ Len(formatted.acts) = 2
    /\ formatted.prior # <<>>
    /\ formatted.acts[1].type = "OFPACT_DEC_TTL"
    /\ formatted.acts[1].compat = "OFPUTIL_NXAST_DEC_TTL_CNT_IDS"
    /\ ~centec
\* C19: a call of ofpacts_put_openflow10, ofpacts_put_openflow11_actions or
\* ofpacts_put_openflow11_instructions that returns leaves the wire buffer
\* starting with the content it had before the call, also when an empty
\* apply-actions instruction was put and deleted again, and
\* ofpacts_put_openflow11_actions returns the number of bytes by which the
\* buffer grew.
C19_OnlyAppend ==
    [][(put' # put /\ ~put'.abort)
          => /\ Len(openflow') >= Len(openflow)
             /\ SubSeq(openflow', 1, Len(openflow)) = openflow
             /\ put'.start = Len(openflow)
             /\ put'.out = SubSeq(openflow', Len(openflow) + 1, Len(openflow'))
             /\ put'.op = "v11" => put'.ret = Len(openflow') - Len(openflow)]_vars

\* An instruction encode over prior content, of a list whose only record
\* has no OpenFlow 1.1 action: the apply-actions instruction was put and
\* deleted again.
C19_Witness ==
    /\ put.op = "inst"
    /\ ~put.abort
    /\ put.start > 0
    /\ Len(put.acts) = 1
    /\ put.acts[1].type = "OFPACT_ENQUEUE"
    /\ put.out = <<>>
    /\ Len(openflow) = put.start
\* C20: a call of ofpacts_pull_openflow10, ofpacts_pull_openflow11_actions
\* or ofpacts_pull_openflow11_instructions with length len takes nothing
\* from the wire buffer and returns a BAD_LEN error when len is not a
\* multiple of 8 or is more than the buffer holds; otherwise it takes
\* exactly the first len bytes, whether it succeeds or refuses a record,
\* and in every case of an error the output is empty.
C20_ConsumesLen ==
    [][pulled' # pulled
          => /\ pulled'.bytes = openflow
             /\ IF pulled'.len % 8 # 0 \/ pulled'.len > Len(openflow)
                THEN /\ openflow' = openflow
                     /\ pulled'.error = IF pulled'.op = "inst"
                                        THEN "OFPERR_OFPBIC_BAD_LEN"
                                        ELSE "OFPERR_OFPBRC_BAD_LEN"
                ELSE /\ Len(openflow') = Len(openflow) - pulled'.len
                     /\ openflow' = SubSeq(openflow, pulled'.len + 1,
                                           Len(openflow))
             /\ pulled'.error # OK
                   => ofpacts'.acts = <<>> /\ ofpacts'.size = 0]_vars

\* A pull whose length checks pass and that refuses a record: the first
\* len bytes are gone, more bytes remain, and the output is empty.
C20_Witness ==
    /\ pulled.op \in {"v10", "v11", "inst"}
    /\ pulled.len > 0
    /\ pulled.len % 8 = 0
    /\ pulled.len < Len(pulled.bytes)
    /\ pulled.error \notin {OK, "OFPERR_OFPBRC_BAD_LEN", "OFPERR_OFPBIC_BAD_LEN"}
    /\ openflow = SubSeq(pulled.bytes, pulled.len + 1, Len(pulled.bytes))
    /\ ofpacts.acts = <<>>
Reference(version, type, len, vendor, subtype) ==
    LET table == IF type = OFPAT_VENDOR THEN NXAST_ACTIONS(centec)
                 ELSE IF version = 10 THEN OFPAT10_ACTIONS
                 ELSE OFPAT11_ACTIONS(centec)
        key == IF type = OFPAT_VENDOR THEN subtype ELSE type
        known == { e \in table : e.enum = key }
        Fail(error) == [error |-> error, code |-> ""]
    IN IF type = OFPAT_VENDOR /\ len < NxActionHeaderSize
       THEN Fail("OFPERR_OFPBAC_BAD_LEN")
       ELSE IF type = OFPAT_VENDOR /\ vendor # NX_VENDOR_ID
       THEN Fail("OFPERR_OFPBAC_BAD_VENDOR")
       ELSE IF known = {} THEN Fail("OFPERR_OFPBAC_BAD_TYPE")
       ELSE IF \E e \in known : (e.ext /\ len >= e.size) \/ (~e.ext /\ len = e.size)
       THEN [error |-> OK, code |-> (CHOOSE e \in known : TRUE).code]
       ELSE Fail("OFPERR_OFPBAC_BAD_LEN")

\* C22: decode_openflow10_action and decode_openflow11_action give, for
\* every type, len, vendor and subtype, the error and code of the
\* reference: a non-vendor type is looked up in the table of the version
\* (unknown: BAD_TYPE); a vendor type needs len >= the NX header size (else
\* BAD_LEN, before the vendor is looked at), then the NX vendor id (else
\* BAD_VENDOR), then a known subtype (else BAD_TYPE); the entry found
\* accepts len >= its size when extensible and len = its size when not
\* (else BAD_LEN).
C22_ClassifyIsReference ==
    classified.version # 0
        => /\ classified.error
                = Reference(classified.version, Ntohs(openflow, 0),
                            Ntohs(openflow, 2), Bytes(openflow, 4, 4),
                            Ntohs(openflow, 8)).error
           /\ classified.error = OK
                => classified.code
                     = Reference(classified.version, Ntohs(openflow, 0),
                                 Ntohs(openflow, 2), Bytes(openflow, 4, 4),
                                 Ntohs(openflow, 8)).code

\* A vendor action shorter than the NX header whose vendor id is not
\* Nicira's: the length is what is reported.
C22_Witness ==
    /\ classified.version = 11
    /\ Ntohs(openflow, 0) = OFPAT_VENDOR
    /\ Ntohs(openflow, 2) = 8
    /\ Bytes(openflow, 4, 4) # NX_VENDOR_ID
    /\ classified.error = "OFPERR_OFPBAC_BAD_LEN"
RECURSIVE InstChunks(_, _)
\* The instructions of the well-formed list b from offset o on, each as its
\* own bytes.
InstChunks(b, o) ==
    IF o >= Len(b) THEN <<>>
    ELSE <<Bytes(b, o, Ntohs(b, o + 2))>> \o InstChunks(b, o + Ntohs(b, o + 2))

RECURSIVE Concat(_, _, _)
\* The chunks of q taken in the order p, from the i-th on, as one list.
Concat(q, p, i) ==
    IF i > Len(q) THEN <<>> ELSE q[p[i]] \o Concat(q, p, i + 1)

\* The place of a record in the order of the framer.
FramerRank(a) ==
    CASE a.type = "OFPACT_METER" -> 0
      [] a.type = "OFPACT_CLEAR_ACTIONS" -> 2
      [] a.type = "OFPACT_WRITE_METADATA" -> 3
      [] a.type = "OFPACT_GOTO_TABLE" -> 4
      [] OTHER -> 1

\* C23: the result of ofpacts_pull_openflow11_instructions on a well-formed
\* instruction list does not depend on the wire order of the instructions:
\* every reordering of the same instructions gives the same error and the
\* same records; and a successful decode holds its records in the order
\* meter, contents of apply-actions, clear_actions, write_metadata,
\* goto_table.
C23_WireOrderIrrelevant ==
    InstsPulled
        => /\ \A p \in Permutations(1..Len(InstChunks(pulled.bytes, 0))) :
                \E r \in { ofpacts_pull_openflow11_instructions(
                               centec, Concat(InstChunks(pulled.bytes, 0), p, 1),
                               pulled.len, EmptyBuf) } :
                    /\ r.error = pulled.error
                    /\ r.ofpacts = ofpacts
           /\ pulled.error = OK
                => \A i, j \in 1..Len(ofpacts.acts) :
                       i < j => FramerRank(ofpacts.acts[i])
                                    <= FramerRank(ofpacts.acts[j])

\* C23's case: goto_table, write_metadata, clear_actions in that wire order
\* gave clear_actions, write_metadata, goto_table.
C23_Witness ==
    /\ ~centec
    /\ InstsPulled /\ pulled.error = OK
    /\ pulled.bytes = goto_table \o write_metadata \o clear_actions
    /\ Len(ofpacts.acts) = 3
    /\ ofpacts.acts[1].type = "OFPACT_CLEAR_ACTIONS"
    /\ ofpacts.acts[2].type = "OFPACT_WRITE_METADATA"
    /\ ofpacts.acts[3].type = "OFPACT_GOTO_TABLE"
\* A record that stands for an instruction of its own.
OwnInstruction(a) ==
    a.type \in {"OFPACT_CLEAR_ACTIONS", "OFPACT_WRITE_METADATA",
                "OFPACT_GOTO_TABLE", "OFPACT_METER"}

RECURSIVE RunEnd(_, _)
\* The index after the maximal run of records without an instruction of
\* their own that starts at i.
RunEnd(acts, i) ==
    IF i > Len(acts) \/ OwnInstruction(acts[i]) THEN i ELSE RunEnd(acts, i + 1)

RECURSIVE InnerActions(_, _, _)
\* The OpenFlow 1.1 actions of the records i..(j - 1).
InnerActions(acts, i, j) ==
    IF i >= j THEN <<>>
    ELSE ofpact_to_openflow11(centec, acts[i]).bytes \o InnerActions(acts, i + 1, j)

RECURSIVE Instructions(_, _)
\* The instruction list that C24 describes for the records from i on.
Instructions(acts, i) ==
    IF i > Len(acts) THEN <<>>
    ELSE IF acts[i].type = "OFPACT_CLEAR_ACTIONS"
    THEN Inst(5, 8, Zeros(4)) \o Instructions(acts, i + 1)
    ELSE IF acts[i].type = "OFPACT_WRITE_METADATA"
    THEN Inst(2, 24, Zeros(4) \o acts[i].f) \o Instructions(acts, i + 1)
    ELSE IF acts[i].type = "OFPACT_GOTO_TABLE"
    THEN Inst(1, 8, acts[i].f \o Zeros(3)) \o Instructions(acts, i + 1)
    ELSE IF acts[i].type = "OFPACT_METER"
    THEN Inst(6, 8, Htonl(acts[i].f)) \o Instructions(acts, i + 1)
    ELSE LET inner == InnerActions(acts, i, RunEnd(acts, i)) IN
         (IF inner = <<>> THEN <<>>
          ELSE Inst(4, 8 + Len(inner), Zeros(4) \o inner))
             \o Instructions(acts, RunEnd(acts, i))

\* C24: a call of ofpacts_put_openflow11_instructions that returns appends,
\* for each maximal run of consecutive records without an instruction of
\* their own, one apply-actions instruction at the place of the run, its
\* len 8 plus the bytes of the actions of the run, or nothing when the run
\* gives no bytes; and for each clear_actions, write_metadata, goto_table
\* and meter record its own instruction; every record is encoded once.
C24_RunsBecomeApply ==
    (put.op = "inst" /\ ~put.abort) => put.out = Instructions(put.acts, 1)

\* C24's case: output, clear_actions, output gave an apply-actions of 24
\* bytes, clear_actions and another apply-actions of 24 bytes.
C24_Witness ==
    /\ put.op = "inst" /\ ~put.abort
    /\ Len(put.acts) = 3
    /\ put.acts[1].type = "OFPACT_OUTPUT"
    /\ put.acts[2].type = "OFPACT_CLEAR_ACTIONS"
    /\ put.acts[3].type = "OFPACT_OUTPUT"
    /\ Len(put.out) = 56
    /\ Ntohs(put.out, 0) = 4 /\ Ntohs(put.out, 2) = 24
    /\ Ntohs(put.out, 24) = 5
    /\ Ntohs(put.out, 32) = 4 /\ Ntohs(put.out, 34) = 24
RECURSIVE RunningCheck(_, _, _, _)
\* The check that C25 describes, from record i on with the running dl_type
\* dl: a record with a field-dependent check is checked against the flow
\* with dl as its dl_type (reg_load of an MPLS field is not checked under
\* _OFP_CENTEC_).
RunningCheck(acts, i, flow, dl) ==
    IF i > Len(acts) THEN OK
    ELSE IF acts[i].type \in {"OFPACT_PUSH_MPLS", "OFPACT_POP_MPLS"}
    THEN RunningCheck(acts, i + 1, flow, acts[i].f)
    ELSE LET e == IF acts[i].type \in {"OFPACT_OUTPUT_REG", "OFPACT_REG_MOVE",
                                       "OFPACT_REG_LOAD", "OFPACT_LEARN",
                                       "OFPACT_MULTIPATH", "OFPACT_BUNDLE"}
                  THEN ofpact_check__(centec, acts[i], [flow EXCEPT !.dl_type = dl],
                                      checked.max_ports, dl).error
                  ELSE ofpact_check__(centec, acts[i], flow,
                                      checked.max_ports, dl).error
         IN IF e # OK THEN e ELSE RunningCheck(acts, i + 1, flow, dl)

\* C25: ofpacts_check gives the error of the walk in which every
\* output_reg, reg_move, reg_load, learn, multipath and bundle record is
\* checked against the flow with its dl_type replaced by the ethertype of
\* the most recent push_mpls or pop_mpls before it (the flow's own dl_type
\* when there is none).
C25_RunningDlType ==
    checked.done
        => checked.error = RunningCheck(checked.acts, 1, checked.flow,
                                        checked.flow.dl_type)
\* A decode of one whole NXAST_DEC_TTL_CNT_IDS action.
DecTtlCntIdsPulled ==
    /\ pulled.op \in {"v10", "v11"}
    /\ pulled.len = Len(pulled.bytes)
    /\ pulled.len >= 16
    /\ Ntohs(pulled.bytes, 0) = OFPAT_VENDOR
    /\ Ntohs(pulled.bytes, 2) = pulled.len
    /\ Bytes(pulled.bytes, 4, 4) = NX_VENDOR_ID
    /\ Ntohs(pulled.bytes, 8) = 21

\* C26: decoding NXAST_DEC_TTL_CNT_IDS gives OFPERR_NXBRC_MUST_BE_ZERO when
\* the zeros field is not all zero, whether or not the ids fit; otherwise
\* OFPERR_OFPBAC_BAD_LEN when n_controllers * 2 is more than len - 16;
\* otherwise it succeeds with one dec_ttl record that holds n_controllers
\* and exactly the first n_controllers ids of the wire array, in wire
\* order (none when n_controllers is 0).
C26_DecTtlCntIds ==
    DecTtlCntIdsPulled
        => LET b == pulled.bytes
               n == Ntohs(b, 10)
           IN IF ~is_all_zeros(b, 12, 4)
              THEN pulled.error = "OFPERR_NXBRC_MUST_BE_ZERO"
              ELSE IF n * 2 > pulled.len - 16
              THEN pulled.error = "OFPERR_OFPBAC_BAD_LEN"
              ELSE /\ pulled.error = OK
                   /\ Len(ofpacts.acts) = 1
                   /\ ofpacts.acts[1].type = "OFPACT_DEC_TTL"
                   /\ ofpacts.acts[1].f
                        = <<n>> \o [k \in 1..n |-> Ntohs(b, 16 + 2 * (k - 1))]
RECURSIVE ActionOffsets(_, _)
\* The offsets of the wire actions of the well-formed list b from o on.
ActionOffsets(b, o) ==
    IF o >= Len(b) THEN <<>> ELSE <<o>> \o ActionOffsets(b, o + Ntohs(b, o + 2))

\* C27: after a successful ofpacts_pull_openflow10 or
\* ofpacts_pull_openflow11_actions over k wire actions the internal list
\* holds exactly k records, and the i-th record is the one that the i-th
\* wire action converts to on its own (kind, compat and fields).
C27_OneRecordPerAction ==
    (/\ pulled.op \in {"v10", "v11"}
     /\ pulled.error = OK
     /\ pulled.len = Len(pulled.bytes))
        => LET at == ActionOffsets(pulled.bytes, 0)
               One(i) == ofpact_from_openflow(Version(pulled.op), centec,
                                              pulled.bytes, at[i], EmptyBuf).out.acts
           IN /\ Len(ofpacts.acts) = Len(at)
              /\ \A i \in 1..Len(at) :
                    /\ Len(One(i)) = 1
                    /\ One(i)[1].type = ofpacts.acts[i].type
                    /\ One(i)[1].compat = ofpacts.acts[i].compat
                    /\ One(i)[1].f = ofpacts.acts[i].f
\* C28: no call of ofpacts_pull_openflow10, ofpacts_pull_openflow11_actions
\* or ofpacts_pull_openflow11_instructions ends in a failed assertion,
\* whatever the wire bytes and the length: the NOT_REACHED arms of
\* ofpact_from_openflow10, ofpact_from_openflow11 and ofpact_from_nxast are
\* not entered, ofpact_update_len is given the last record put, and
\* instruction_get_<ENUM> is given an instruction of type ENUM.
C28_NoAssertionFails ==
    pulled.op # "none" => pulled.error # OVS_ABORT

\* C28's case: an OpenFlow 1.0 decode was given an action of a type that
\* only OpenFlow 1.1 has (push_vlan, 17) and refused it as OFPERR_OFPBAC_BAD_TYPE.
C28_Witness ==
    /\ pulled.op = "v10"
    /\ pulled.len = Len(pulled.bytes)
    /\ pulled.bytes = Act(17, 8, <<129, 0, 0, 0>>)
    /\ pulled.error = "OFPERR_OFPBAC_BAD_TYPE"
\* C29: the walk of ACTION_FOR_EACH or INSTRUCTION_FOR_EACH over the first
\* N units of 8 bytes of a buffer runs its body only on records that lie
\* wholly inside these N units; at each of them the units consumed so far
\* plus LEFT are N; LEFT decreases from each record to the next; and the
\* body runs at most N times.
C29_WalkStaysInside ==
    (/\ pulled.op # "none"
     /\ pulled.len % 8 = 0
     /\ pulled.len <= Len(pulled.bytes))
        => LET N == pulled.len \div 8
               T == FOR_EACH(pulled.bytes, 0, N, pulled.op = "inst")
           IN /\ Len(T) <= N
              /\ \A k \in 1..Len(T) :
                    /\ T[k].iter % 8 = 0
                    /\ T[k].iter \div 8 + T[k].left = N
                    /\ T[k].iter + Ntohs(pulled.bytes, T[k].iter + 2) <= N * 8
                    /\ k > 1 => T[k].left < T[k - 1].left

\* C29's case: the walk ran over an output action and stopped at an action
\* of 16 bytes whose len field is 12.
C29_Witness ==
    /\ pulled.op = "v10"
    /\ pulled.len = 24
    /\ pulled.bytes = Act(0, 8, <<0, 1, 0, 0>>) \o Act(0, 12, <<0, 1, 0, 0>> \o Zeros(8))
    /\ pulled.error = "OFPERR_OFPBAC_BAD_LEN"
    /\ Len(FOR_EACH(pulled.bytes, 0, 3, FALSE)) = 1

\* The action at byte offset o of b is a Nicira write_metadata.
IsNxWriteMetadata(b, o) ==
    /\ Ntohs(b, o) = OFPAT_VENDOR
    /\ Bytes(b, o + 4, 4) = NX_VENDOR_ID
    /\ Ntohs(b, o + 8) = 22

\* The action decode of the last pull ran over a list that translates
\* without error: a length that is a multiple of 8 and within the buffer,
\* and every action accepted by the translator.
OtherwiseValid ==
    /\ pulled.op \in {"v10", "v11"}
    /\ pulled.len % 8 = 0 /\ pulled.len <= Len(pulled.bytes)
    /\ ofpacts_from_openflow(IF pulled.op = "v10" THEN 10 ELSE 11, centec,
                             pulled.bytes, 0, pulled.len \div 8,
                             EmptyBuf).error = OK

\* C30: the OpenFlow 1.0 and 1.1 action decoders verify the instruction
\* order of what they translated.  An otherwise valid list in which a Nicira
\* write_metadata is followed by another action (a second write_metadata
\* included) is refused with OFPERR_OFPBAC_UNSUPPORTED_ORDER and the output
\* is left empty; an otherwise valid list whose only write_metadata is its
\* last action is accepted and the output holds its records, the last of
\* them the write_metadata.
C30_WriteMetadataLast ==
    OtherwiseValid =>
        LET T == FOR_EACH(pulled.bytes, 0, pulled.len \div 8, FALSE)
            WM == { k \in 1..Len(T) : IsNxWriteMetadata(pulled.bytes, T[k].iter) }
        IN /\ (\E k \in WM : k < Len(T))
                => /\ pulled.error = "OFPERR_OFPBAC_UNSUPPORTED_ORDER"
                   /\ ofpacts = EmptyBuf
           /\ (WM = {Len(T)} /\ Len(T) > 0)
                => /\ pulled.error = OK
                   /\ Len(ofpacts.acts) >= Len(T)
                   /\ ofpacts.acts[Len(ofpacts.acts)].type = "OFPACT_WRITE_METADATA"

\* C30's case: an OpenFlow 1.0 list of write_metadata then output was
\* refused and the output is empty.
C30_Witness ==
    /\ pulled.op = "v10"
    /\ pulled.len = 40
    /\ pulled.bytes = NxAct(22, 32, Zeros(6) \o <<1, 2, 3, 4, 5, 6, 7, 8>>
                                    \o <<255, 255, 255, 255, 255, 255, 255, 255>>)
                        \o Act(0, 8, <<0, 1, 0, 0>>)
    /\ OtherwiseValid
    /\ pulled.error = "OFPERR_OFPBAC_UNSUPPORTED_ORDER"
    /\ ofpacts = EmptyBuf
====
